---- MODULE Spec2Model ----
(***************************************************************************)
(* Verification model of the conversation/workflow engine of               *)
(* ai-bootstraper: the conversation state machine (core/state_machine.py), *)
(* the orchestrator turn (core/agent.py), the action registry's dispatch   *)
(* (gemini/function_registry.py), the file-backed session store           *)
(* (core/session_manager.py, api/websockets.py) and the plan executor      *)
(* (execution/engine.py).                                                  *)
(*                                                                         *)
(* The main specifications of the module:                                    *)
(*   Spec       one session driven through orchestrator turns;             *)
(*   SpecStore  concurrent tasks persisting sessions through the store;    *)
(*   SpecTurns  the store restricted to concurrent orchestrator turns.     *)
(* Further specifications follow one component each; they are introduced   *)
(* where they are defined.                                                 *)
(***************************************************************************)
EXTENDS Integers, Sequences, FiniteSets, TLC

VARIABLES
    ss,        \* Spec: the SessionState object of the running turn
    pc,        \* Spec: position of the turn ("idle", "streaming", "gemini_except",
               \*       "turn_except", "returned", "raised")
    calls,     \* Spec: function_call chunks the session has received so far
    ev,        \* Spec: what the last step did (operation, auto_transition call, dispatch)
    trail,     \* Spec: which states the session has been in (history of current_state)
    disk,      \* SpecStore: the session file of the session id
    tmp,       \* SpecStore: its sibling temp file (<session file>.tmp)
    ckpt,      \* SpecStore: a checkpoint file taken of it
    locks,     \* SpecStore: SessionManager._locks[id] of each manager (0: no entry)
    held,      \* SpecStore: the Lock objects that are acquired
    task,      \* SpecStore: per task: operation, position, local session object, locks
    nextLock,  \* SpecStore: number of Lock objects created so far
    ops,       \* SpecStore: number of operations started so far
    saved,     \* SpecStore: inputs of the turns saved since the document was last replaced
    invocations, \* SpecIter: _process_with_gemini invocations of the running turn
    cpsPc,     \* SpecProject: position in create_project_with_steps
               \*   ("idle", "loop", "exit", "done")
    steps_len, \* SpecProject: len(steps), the step list being executed
    step_i,    \* SpecProject: the loop index i
    attempts,  \* SpecProject: the regeneration counter of the loop
    should_regenerate_steps, \* SpecProject: the session's flag of that name
    results,   \* SpecProject: entries of results, by their "success"
    failed_steps, \* SpecProject: len(failed_steps)
    cpsRet,    \* SpecProject: what create_project_with_steps returned
    regenerated, \* SpecProject: step lists regenerated during this execution
    unrecovered, \* SpecProject: a shell step failed and so did every recovery
    mAsked,    \* SpecMatch: the question the session was asked
    mQuestion, \* SpecMatch: session_state.pending_question
    mReply,    \* SpecMatch: the user's reply (user_input)
    mWaiting,  \* SpecMatch: session_state.waiting_for_user
    mReq,      \* SpecMatch: session_state.requirements, the fields asked about
    mGranted,  \* SpecMatch: a Permission(granted=True) is in session_state.permissions
    mPos,      \* SpecMatch: position of the turn ("none", "asked", "gemini", "except")
    execution_plan, \* SpecEngine: the steps of the plan given to execute_plan
    websocket, \* SpecEngine: a websocket was given to execute_plan
    engPc,     \* SpecEngine: position in execute_plan
               \*   ("idle", "loop", "fallback", "returned", "raised")
    eng_i,     \* SpecEngine: the loop index i (0-based, as in the code)
    engResults, \* SpecEngine: the list results
    engRan,     \* SpecEngine: the commands execute_step was called for, in order
    save_errors, \* SpecSave: saves that have raised an error so far
    clock, \* SpecExpiry: datetime.now(), in units of time
    files, \* SpecExpiry: the session file of each session id
    loaded, \* SpecExpiry: what the last load_state call returned
    swPc, \* SpecExpiry: position in cleanup_expired_sessions ("idle", "load", "check", "done")
    swList, \* SpecExpiry: the sessions cleanup_expired_sessions has still to visit
    swState, \* SpecExpiry: the session_state cleanup_expired_sessions has loaded
    cleaned, \* SpecExpiry: the counter cleaned
    removed, \* SpecExpiry: session files the running cleanup has removed
    removedLive, \* SpecExpiry: the running cleanup has removed a file that was not expired
    conversation_history, \* SpecHistory: session_state.conversation_history (role, content)
    hBefore, \* SpecHistory: conversation_history when the running turn began
    hInput, \* SpecHistory: user_input of the running turn
    hPc, \* SpecHistory: position of the turn ("idle", "handle", "gemini", "done")
    openChannels, \* SpecChannels: the websockets that are open, each with its session id
    active_connections, \* SpecChannels: WebSocketManager.active_connections (connection id, websocket)
    session_connections, \* SpecChannels: WebSocketManager.session_connections
    heartbeat_tasks, \* SpecChannels: connection ids whose heartbeat task is running
    accepted, \* SpecChannels: websockets accepted so far
    blocking_seen, \* SpecAdvance: a result of the running turn had a status that is not an advancement status
    partial_content, \* SpecParser: GeminiChunkParser.partial_content of the agent's parser, as text tokens
    streamed, \* SpecParser: per session, the last 'accumulated' text sent on its channel and the turn it was sent in
    turnOf, \* SpecParser: per session, the number of its running or last turn
    inTurn, \* SpecParser: per session, a turn is consuming a stream
    capabilities, \* SpecSwitch: session_state.capabilities, None until detected
    swSession, \* SpecSwitch: the session's language, framework, results, plan and flag
    swCall, \* SpecSwitch: the last fail_technology_and_switch call and its result
    function_results \* SpecLog: session_state.function_results, each entry by who appended it

turnVars  == <<ss, pc, calls, ev, trail>>
storeVars == <<disk, tmp, ckpt, locks, held, task, nextLock, ops, saved>>
iterVars  == <<invocations>>
projVars  == <<cpsPc, steps_len, step_i, attempts, should_regenerate_steps, results,
               failed_steps, cpsRet, regenerated, unrecovered>>
matchVars == <<mAsked, mQuestion, mReply, mWaiting, mReq, mGranted, mPos>>
engVars   == <<execution_plan, websocket, engPc, eng_i, engResults, engRan>>
faultVars == <<save_errors>>
expVars == <<clock, files, loaded, swPc, swList, swState, cleaned, removed, removedLive>>
histVars == <<conversation_history, hBefore, hInput, hPc>>
chanVars == <<openChannels, active_connections, session_connections, heartbeat_tasks, accepted>>
advVars == <<blocking_seen>>
parseVars == <<partial_content, streamed, turnOf, inTurn>>
switchVars == <<capabilities, swSession, swCall>>
logVars == <<function_results>>
extVars   == <<iterVars, projVars, matchVars, engVars, faultVars, expVars, histVars, chanVars, advVars, parseVars, switchVars, logVars>>
vars      == <<ss, pc, calls, ev, trail,
               disk, tmp, ckpt, locks, held, task, nextLock, ops, saved,
               invocations,
               cpsPc, steps_len, step_i, attempts, should_regenerate_steps, results,
               failed_steps, cpsRet, regenerated, unrecovered,
               mAsked, mQuestion, mReply, mWaiting, mReq, mGranted, mPos,
               execution_plan, websocket, engPc, eng_i, engResults, engRan,
               save_errors,
               clock, files, loaded, swPc, swList, swState, cleaned, removed, removedLive,
               conversation_history, hBefore, hInput, hPc,
               openChannels, active_connections, session_connections, heartbeat_tasks, accepted,
               blocking_seen,
               partial_content, streamed, turnOf, inTurn,
               capabilities, swSession, swCall,
               function_results>>

-----------------------------------------------------------------------------
(* models/schemas.py                                                       *)

ConversationState ==
    << "INIT", "ASK_PROJECT_TYPE", "ASK_LANGUAGE_PREFERENCE",
       "ASK_PROJECT_NAME_FOLDER", "ASK_ADDITIONAL_DETAILS",
       "CHECK_SYSTEM_CAPABILITIES", "VALIDATE_INFO", "SUMMARY_CONFIRMATION",
       "PLANNING", "EXECUTING", "VERIFYING", "COMPLETED", "ERROR", "ABORTED" >>

States == { ConversationState[i] : i \in 1..Len(ConversationState) }

\* ProjectRequirements(): every field None; a field is modelled by whether it is set.
ProjectRequirements ==
    [ project_type |-> FALSE, language |-> FALSE,
      project_name |-> FALSE, folder_path |-> FALSE ]

\* SessionState(session_id=..., current_state=INIT): the defaults of the model.
\* execution_plan: None, or the number of steps of the plan.
\* function_results: whether it holds an entry, and the name and status of
\* its last entry (status None: the entry has no "status" key).
SessionState ==
    [ current_state         |-> "INIT",
      requirements          |-> ProjectRequirements,
      capabilities          |-> FALSE,
      permissions           |-> FALSE,
      execution_plan        |-> [present |-> FALSE, steps |-> 0],
      execution_results     |-> 0,
      pending_question      |-> "None",
      waiting_for_user      |-> FALSE,
      completion_percentage |-> 0,
      error_message         |-> "None",
      function_results      |-> [nonempty |-> FALSE, name |-> "None", status |-> "None"],
      validation_completed  |-> FALSE ]

\* SessionState.update_state
update_state(s, new_state) == [s EXCEPT !.current_state = new_state]

-----------------------------------------------------------------------------
(* core/state_machine.py                                                   *)

\* The conditions of the registered transitions, by name.
Condition(c, s) ==
    CASE c = "always"          -> TRUE
      [] c = "project_type"    -> s.requirements.project_type
      [] c = "language"        -> s.requirements.language
      [] c = "name_folder"     -> /\ s.requirements.project_name
                                  /\ s.requirements.folder_path
                                  /\ TRUE
      [] c = "name_folder_never" -> /\ s.requirements.project_name
                                    /\ s.requirements.folder_path
                                    /\ FALSE
      [] c = "capabilities"    -> s.capabilities
      [] c = "validated_80"    -> /\ s.capabilities
                                  /\ s.validation_completed
                                  /\ s.completion_percentage >= 80
      [] c = "validated"       -> s.capabilities /\ s.validation_completed
      [] c = "incomplete"      -> s.completion_percentage < 100
      [] c = "plan_steps"      -> /\ s.execution_plan.present
                                  /\ s.execution_plan.steps > 0
      [] c = "results"         -> s.execution_results > 0
      [] c = "error_message"   -> s.error_message # "None"

StateTransition(f, t, c) == [from_state |-> f, to_state |-> t, condition |-> c]

\* The conversation-flow transitions, in the order _setup_transitions adds them.
FlowTransitions ==
    << StateTransition("INIT", "ASK_PROJECT_TYPE", "always"),
       StateTransition("ASK_PROJECT_TYPE", "ASK_PROJECT_NAME_FOLDER", "project_type"),
       StateTransition("ASK_LANGUAGE_PREFERENCE", "ASK_PROJECT_NAME_FOLDER", "language"),
       StateTransition("ASK_PROJECT_NAME_FOLDER", "CHECK_SYSTEM_CAPABILITIES", "name_folder"),
       StateTransition("ASK_PROJECT_NAME_FOLDER", "ASK_ADDITIONAL_DETAILS", "name_folder_never"),
       StateTransition("ASK_ADDITIONAL_DETAILS", "CHECK_SYSTEM_CAPABILITIES", "always"),
       StateTransition("CHECK_SYSTEM_CAPABILITIES", "VALIDATE_INFO", "capabilities"),
       StateTransition("VALIDATE_INFO", "PLANNING", "validated_80"),
       StateTransition("VALIDATE_INFO", "SUMMARY_CONFIRMATION", "validated"),
       StateTransition("VALIDATE_INFO", "ASK_PROJECT_TYPE", "incomplete"),
       StateTransition("SUMMARY_CONFIRMATION", "PLANNING", "always"),
       StateTransition("PLANNING", "EXECUTING", "plan_steps"),
       StateTransition("EXECUTING", "VERIFYING", "results"),
       StateTransition("VERIFYING", "COMPLETED", "always") >>

\* "Error transitions from any state": for every state of the enum, in enum
\* order, except ERROR and ABORTED, one to ERROR and then one to ABORTED.
NonTerminal == SelectSeq(ConversationState, LAMBDA q : q \notin {"ERROR", "ABORTED"})

ErrorTransitions ==
    [ i \in 1..(2 * Len(NonTerminal)) |->
        IF i % 2 = 1
        THEN StateTransition(NonTerminal[(i + 1) \div 2], "ERROR", "error_message")
        ELSE StateTransition(NonTerminal[i \div 2], "ABORTED", "always") ]

\* ConversationStateMachine.transitions after _setup_transitions
Transitions == FlowTransitions \o ErrorTransitions

\* StateTransition.can_transition
can_transition(t, s) ==
    IF s.current_state # t.from_state THEN FALSE ELSE Condition(t.condition, s)

\* ConversationStateMachine.get_valid_transitions
get_valid_transitions(s) == SelectSeq(Transitions, LAMBDA t : can_transition(t, s))

\* A mutant of auto_transition: takes the last valid transition, not the first.
auto_transition_last(s) ==
    LET valid == get_valid_transitions(s)
    IN  IF valid # << >>
        THEN [ session |-> update_state(s, valid[Len(valid)].to_state),
               ret     |-> valid[Len(valid)].to_state ]
        ELSE [ session |-> s, ret |-> "None" ]

\* ConversationStateMachine.auto_transition: the session afterwards and the
\* value returned (the new state, or None).
auto_transition(s) ==
    LET valid == get_valid_transitions(s)
    IN  IF valid # << >>
        THEN [ session |-> update_state(s, valid[1].to_state),
               ret     |-> valid[1].to_state ]
        ELSE [ session |-> s, ret |-> "None" ]

-----------------------------------------------------------------------------
(* gemini/function_registry.py: the registered actions                     *)

\* What one step did besides changing the session: the auto_transition call
\* it made (if any) and the dispatches it made through FunctionRegistry.execute.
NoAuto == [called |-> FALSE, ret |-> "None"]

AutoCall(s) == [called |-> TRUE, ret |-> auto_transition(s).ret]

\* The states update_conversation_state is called with in the model.
ForcedTargets == {"INIT", "VERIFYING", "ABORTED", "ERROR"}

\* The action invocations the reasoning capability emits in the model: a
\* registered (or unknown) name with one variant of its arguments.
Calls ==
    { [name |-> "ask_user_preference", arg |-> "project_type"] }
    \cup { [name |-> "update_project_requirements", arg |-> a] :
             a \in {"type_language", "name_folder"} }
    \cup { [name |-> "update_conversation_state", arg |-> q] : q \in ForcedTargets }
    \cup { [name |-> n, arg |-> "ok"] :
             n \in { "request_permission", "detect_system_capabilities",
                     "validate_requirements_against_capabilities",
                     "generate_execution_plan", "create_project_with_steps",
                     "execute_project_creation", "confirm_project_creation",
                     "unknown_function" } }

\* FunctionRegistry.functions: the registered names among those of Calls.
Registered == { c.name : c \in Calls } \ {"unknown_function"}

\* What the environment answers to a handler that asks it something: the
\* capability probe / planner / execution engine succeeds or raises.
EnvOutcomes == { "ok", "raises" }

\* The required-fields count of update_project_requirements, as a percentage.
Completion(r) ==
    25 * ( (IF r.project_type THEN 1 ELSE 0) + (IF r.language THEN 1 ELSE 0)
         + (IF r.project_name THEN 1 ELSE 0) + (IF r.folder_path THEN 1 ELSE 0) )

\* update_project_requirements(**kwargs): sets the given fields, recomputes
\* completion_percentage.
update_project_requirements(s, a) ==
    LET r == IF a = "type_language"
             THEN [s.requirements EXCEPT !.project_type = TRUE, !.language = TRUE]
             ELSE IF a = "name_folder"
             THEN [s.requirements EXCEPT !.project_name = TRUE, !.folder_path = TRUE]
             ELSE [s.requirements EXCEPT !.project_type = TRUE]
    IN  [s EXCEPT !.requirements = r, !.completion_percentage = Completion(r)]

Result(s, status) == [session |-> s, status |-> status, auto |-> NoAuto]

\* The registered handlers: the session afterwards, the status of the result
\* returned and the auto_transition call made inside the handler, if any.
Handler(name, a, env, s) ==
    CASE name = "ask_user_preference" ->
           Result([s EXCEPT !.pending_question = "choice_" \o a,
                            !.waiting_for_user = TRUE], "waiting_for_user")
      [] name = "request_permission" ->
           Result([s EXCEPT !.pending_question = "permission",
                            !.waiting_for_user = TRUE], "permission_requested")
      [] name = "update_project_requirements" ->
           Result(update_project_requirements(s, a), "updated")
      [] name = "update_conversation_state" ->
           Result(update_state(s, a), "state_updated")
      [] name = "confirm_project_creation" ->
           \* the assignment to user_confirmed_project, which is no field of
           \* SessionState, raises; the handler's except returns
           Result(s, "confirmation_failed")
      [] name = "detect_system_capabilities" ->
           IF env = "raises" THEN Result(s, "detection_failed")
           ELSE Result([s EXCEPT !.capabilities = TRUE], "capabilities_detected")
      [] name = "validate_requirements_against_capabilities" ->
           IF ~s.capabilities THEN Result(s, "validation_failed")
           ELSE LET v == [s EXCEPT !.validation_completed = TRUE]
                IN  [ session |-> auto_transition(v).session,
                      status  |-> "validation_complete",
                      auto    |-> AutoCall(v) ]
      [] name = "generate_execution_plan" ->
           IF ~s.capabilities \/ env = "raises" THEN Result(s, "planning_failed")
           ELSE Result([s EXCEPT !.execution_plan = [present |-> TRUE, steps |-> 1]],
                       "plan_generated")
      [] name = "create_project_with_steps" ->
           IF env = "raises" THEN Result(s, "creation_failed")
           ELSE Result(s, "execution_completed")
      [] name = "execute_project_creation" ->
           IF ~s.execution_plan.present \/ s.execution_plan.steps = 0
              \/ env = "raises"
           THEN Result(s, "execution_failed")
           ELSE Result([s EXCEPT !.execution_results = 1], "execution_completed")

-----------------------------------------------------------------------------
(* gemini/function_registry.py: FunctionRegistry.execute                   *)

ProjectCreationFunctions ==
    { "create_project_with_steps", "generate_file_content",
      "ai_generate_project_steps", "fail_technology_and_switch" }

RequirementsSet(s) ==
    s.requirements.project_type /\ s.requirements.language /\ s.requirements.project_name

\* FunctionRegistry._handle_missing_requirements.  extracted: what the
\* inference sub-step returned ("nothing", or the requirements it extracted).
handle_missing_requirements(name, s, extracted) ==
    IF s.current_state # "INIT" THEN [session |-> s, intervened |-> FALSE]
    ELSE IF name \notin ProjectCreationFunctions THEN [session |-> s, intervened |-> FALSE]
    ELSE IF RequirementsSet(s) THEN [session |-> s, intervened |-> FALSE]
    ELSE IF extracted = "nothing" THEN [session |-> s, intervened |-> FALSE]
    ELSE [ session |-> [update_project_requirements(s, extracted)
                           EXCEPT !.current_state = "ASK_PROJECT_TYPE"],
           intervened |-> TRUE ]

\* state_restrictions[INIT]["blocked_functions"] of _validate_function_for_state,
\* after the special case for requirements that are already set.
BlockedFunctions(s) ==
    IF s.current_state = "INIT"
    THEN IF RequirementsSet(s)
         THEN { "generate_file_content", "validate_requirements_against_capabilities" }
         ELSE { "create_project_with_steps", "generate_file_content",
                "ai_generate_project_steps",
                "validate_requirements_against_capabilities",
                "fail_technology_and_switch" }
    ELSE { }

\* state_restrictions[...]["allowed_functions"] of _validate_function_for_state,
\* after the same special case; a state without restrictions allows every name.
AllowedFunctions(s) ==
    IF s.current_state = "INIT"
    THEN { "request_permission", "detect_system_capabilities",
           "update_project_requirements" }
         \cup (IF RequirementsSet(s)
               THEN { "ai_generate_project_steps", "create_project_with_steps",
                      "fail_technology_and_switch" }
               ELSE { })
    ELSE Registered \cup {"unknown_function"}

\* FunctionRegistry._validate_function_for_state: TRUE when it returns an
\* error message (the function is blocked), FALSE when it returns None.
validate_function_for_state(name, s) == name \in BlockedFunctions(s)

\* FunctionRegistry._get_allowed_functions_for_state: the allow-list reported
\* with a blocked call; "All functions allowed" is the set of all names.
get_allowed_functions_for_state(q) ==
    CASE q = "INIT" -> {"request_permission", "detect_system_capabilities"}
      [] q = "ASK_PROJECT_TYPE" ->
            {"update_project_requirements", "detect_system_capabilities"}
      [] q = "PLANNING" -> {"ai_generate_project_steps", "create_project_with_steps"}
      [] OTHER -> Registered \cup {"unknown_function"}

\* The entry execute appends to session_state.function_results: it has the
\* keys name, args, result, timestamp and no "status".
RegistryRecord(s, name) ==
    [s EXCEPT !.function_results = [nonempty |-> TRUE, name |-> name, status |-> "None"]]

\* The sends of one dispatch that can raise, as the model draws them:
\*   "exec_complete"  the first send inside the try of execute raises and the
\*                    function_execution_error send of its except succeeds;
\*   "exec_error"     the same, and the send of the except raises as well;
\*   "result"         the function_result send after execute raises.
SendPoints == { "none", "exec_complete", "exec_error", "result" }

Dispatch(name, status, ran) == [name |-> name, status |-> status, ran |-> ran]

\* FunctionRegistry.execute(function_call, session_state, websocket).
\*   f  the send of this dispatch that raises (SendPoints).
\* raised: the exception left execute.
execute(call, env, extracted, s, f) ==
    LET name == call.name
        Failed(s1, ran, au) ==
            [ session |-> s1, status |-> "failed", raised |-> f = "exec_error",
              auto |-> au, dispatch |-> Dispatch(name, "failed", ran) ]
    IN
    IF name \notin Registered
    THEN [ session |-> s, status |-> "failed", raised |-> FALSE, auto |-> NoAuto,
           dispatch |-> Dispatch(name, "failed", FALSE) ]
    ELSE
      LET hm == handle_missing_requirements(name, s, extracted)
          s1 == hm.session
      IN
      IF hm.intervened /\ f \in {"exec_complete", "exec_error"}
      THEN Failed(s1, FALSE, NoAuto)
      ELSE IF validate_function_for_state(name, s1)
      THEN [ session |-> s1, status |-> "blocked_by_state_machine", raised |-> FALSE,
             auto |-> NoAuto,
             dispatch |-> Dispatch(name, "blocked_by_state_machine", FALSE) ]
      ELSE
        LET h  == Handler(name, call.arg, env, s1)
            s2 == RegistryRecord(h.session, name)
        IN
        IF f \in {"exec_complete", "exec_error"} THEN Failed(s2, TRUE, h.auto)
        ELSE [ session |-> s2, status |-> h.status, raised |-> FALSE, auto |-> h.auto,
               dispatch |-> Dispatch(name, h.status, TRUE) ]

-----------------------------------------------------------------------------
(* core/agent.py: ConversationAgent                                        *)

AdvancementStatuses ==
    { "completed", "capabilities_detected", "capabilities_already_detected",
      "requirements_updated", "updated", "validation_complete", "confirmed",
      "plan_generated", "ai_recovery_needed" }

BlockingStatuses ==
    { "waiting_for_user", "permission_requested", "error", "failed",
      "needs_retry", "executing", "validating" }

\* ConversationAgent._should_advance_workflow: "yes", "no", or "raises"
\* (perm.get(...) on a Permission object, which has no method get).
should_advance_workflow(s) ==
    LET last == s.function_results IN
    IF s.waiting_for_user \/ s.pending_question # "None" THEN "no"
    ELSE IF ~last.nonempty THEN "yes"
    ELSE IF /\ last.status = "permission_requested"
            /\ last.name = "request_permission"
            /\ s.current_state = "INIT"
         THEN (IF s.permissions THEN "raises" ELSE "no")
    ELSE IF last.status \in BlockingStatuses THEN "no"
    ELSE IF last.status \in AdvancementStatuses
         THEN CASE s.current_state = "INIT" ->
                     (IF s.permissions THEN "yes" ELSE "no")
                [] s.current_state = "CHECK_SYSTEM_CAPABILITIES" ->
                     (IF s.capabilities THEN "yes" ELSE "no")
                [] s.current_state \in {"ASK_PROJECT_TYPE", "ASK_PROJECT_NAME_FOLDER",
                                        "ASK_ADDITIONAL_DETAILS"} ->
                     (IF s.requirements.project_type THEN "yes" ELSE "no")
                [] s.current_state = "PLANNING" ->
                     (IF s.execution_plan.present THEN "yes" ELSE "no")
                [] OTHER -> "yes"
    ELSE "no"

\* The entry _process_with_gemini appends to function_results (name, status,
\* timestamp, result); entries beyond ten are popped from the front.
AgentRecord(s, name, status) ==
    [s EXCEPT !.function_results = [nonempty |-> TRUE, name |-> name, status |-> status]]

\* The history of current_state the claims refer to:
\*   executing        the session has been in EXECUTING;
\*   verifying_after  it has been in VERIFYING after having been in EXECUTING.
NoTrail == [executing |-> FALSE, verifying_after |-> FALSE]

Trail(tr, s) ==
    [ executing       |-> tr.executing \/ s.current_state = "EXECUTING",
      verifying_after |-> tr.verifying_after
                          \/ (tr.executing /\ s.current_state = "VERIFYING") ]

Event(op, auto, dispatches) == [op |-> op, auto |-> auto, dispatches |-> dispatches]

\* The function_call chunks the model follows over the life of a session.
MaxCalls == 3

\* One step of the running turn: the session it leaves, where the turn is
\* afterwards and what the step did.
Step(s, next, op, auto, dispatches) ==
    /\ ss' = s
    /\ pc' = next
    /\ calls' = IF op = "dispatch" THEN calls + 1 ELSE calls
    /\ ev' = Event(op, auto, dispatches)
    /\ trail' = Trail(trail, s)

-----------------------------------------------------------------------------
(* core/session_manager.py: the file-backed store, for one session id      *)

\* The tasks (coroutines of the event loop) that use the store concurrently.
NumTasks == 2
Tasks == 1..NumTasks

\* The operations the model follows over the life of the session id.
MaxOps == 4

\* The SessionManager instances of the process: app.state.session_manager
\* (app.py lifespan, used by the channel handler), ConversationAgent's own
\* (agent.py __init__) and the module-level one of api/routes.py.
Managers == {"app", "agent", "routes"}

\* A file: absent, unparsable, or a session document with its state_version
\* and the user inputs in its conversation_history.
Absent  == [kind |-> "absent",  version |-> 0, history |-> {}]
Corrupt == [kind |-> "corrupt", version |-> 0, history |-> {}]
Doc(v, h) == [kind |-> "doc", version |-> v, history |-> h]

\* SessionState(session_id=..., current_state=INIT) as create_session builds
\* it: state_version has its default.
state_version == 1
FreshDoc == Doc(state_version, {})

IdleTask ==
    [pc |-> "idle", op |-> "none", mgr |-> "app", local |-> Absent,
     lock |-> 0, outer |-> 0, create |-> FALSE]

\* SessionManager._get_lock: the Lock of the id, created when there is none.
get_lock(m) == IF locks[m] = 0 THEN nextLock + 1 ELSE locks[m]

GetLockEffect(m) ==
    /\ locks' = [locks EXCEPT ![m] = get_lock(m)]
    /\ nextLock' = IF locks[m] = 0 THEN nextLock + 1 ELSE nextLock

\* save_state up to its first suspension: state_version += 1 on the object,
\* _get_lock, and "async with lock", which acquires a free lock at once and
\* otherwise waits.
\*   outer   the lock this task already holds (save_state called from inside
\*           load_state's "async with lock"), 0 when none;
\*   create  the save is the one of create_session.
EnterSave(t, m, doc, op, outer, create) ==
    LET d == [doc EXCEPT !.version = @ + 1]
        L == get_lock(m)
    IN  /\ GetLockEffect(m)
        /\ held' = IF L \in held THEN held ELSE held \cup {L}
        /\ task' = [task EXCEPT ![t] =
                      [pc |-> IF L \in held THEN "save_wait" ELSE "save_write",
                       op |-> op, mgr |-> m, local |-> d, lock |-> L,
                       outer |-> outer, create |-> create]]

\* load_state on an existing file up to its first suspension: _get_lock and
\* "async with lock".
EnterLoad(t, m, op) ==
    LET L == get_lock(m)
    IN  /\ GetLockEffect(m)
        /\ held' = IF L \in held THEN held ELSE held \cup {L}
        /\ task' = [task EXCEPT ![t] =
                      [pc |-> IF L \in held THEN "load_wait" ELSE "load_read",
                       op |-> op, mgr |-> m, local |-> Absent, lock |-> L,
                       outer |-> IF L \in held THEN 0 ELSE L, create |-> FALSE]]

\* load_state(id): a missing file means create_session, else the locked read.
StartLoad(t, m, op) ==
    IF disk.kind = "absent"
    THEN EnterSave(t, m, FreshDoc, op, 0, TRUE)
    ELSE EnterLoad(t, m, op)

\* A task starts an operation on the session id:
\*   "turn"        handle_websocket_message(user_message): load_state,
\*                 process_conversation, save_state, on the app's manager;
\*   "connect"     start_new_session on a new connection:
\*                 start_new_conversation, i.e. create_session and save_state
\*                 again, on the agent's manager;
\*   "checkpoint"  create_checkpoint, "restore" restore_checkpoint, on the
\*                 manager of api/routes.py.
Begin(t, op) ==
    /\ task[t].pc = "idle"
    /\ ops < MaxOps
    /\ ops' = ops + 1
    /\ CASE op = "turn"       -> StartLoad(t, "app", op)
         [] op = "checkpoint" -> StartLoad(t, "routes", op)
         [] op = "connect"    -> EnterSave(t, "agent", FreshDoc, op, 0, TRUE)
         [] op = "restore"    -> /\ ckpt.kind = "doc"
                                 /\ EnterSave(t, "routes", ckpt, op, 0, TRUE)
    /\ UNCHANGED <<disk, tmp, ckpt, saved>>

\* SessionManager.delete_session (api/routes.py delete_session): no lock is
\* taken; the file is removed and the manager's lock entry deleted.
DeleteSession(t) ==
    /\ task[t].pc = "idle"
    /\ ops < MaxOps
    /\ disk.kind # "absent"
    /\ ops' = ops + 1
    /\ disk' = Absent
    /\ locks' = [locks EXCEPT !["routes"] = 0]
    /\ saved' = {}
    /\ UNCHANGED <<tmp, ckpt, held, task, nextLock>>

\* The environment damages the session file (a truncated or hand-edited
\* file, a document of another schema): it no longer parses.
CorruptFile ==
    /\ ops < MaxOps
    /\ disk.kind = "doc"
    /\ ops' = ops + 1
    /\ disk' = Corrupt
    /\ saved' = {}
    /\ UNCHANGED <<tmp, ckpt, locks, held, task, nextLock>>

\* A waiting "async with lock" gets the lock once it is free.
Acquire(t) ==
    /\ task[t].pc \in {"load_wait", "save_wait"}
    /\ task[t].lock \notin held
    /\ held' = held \cup {task[t].lock}
    /\ task' = [task EXCEPT ![t].pc = IF @ = "load_wait" THEN "load_read" ELSE "save_write",
                            ![t].outer = IF task[t].pc = "load_wait"
                                         THEN task[t].lock ELSE @]
    /\ UNCHANGED <<disk, tmp, ckpt, locks, nextLock, ops, saved>>

\* Where an operation goes on once load_state has returned.
AfterLoad(op) == IF op = "turn" THEN "mutate" ELSE "ckpt_write"

\* load_state inside its lock: read and parse the file.  A document is
\* returned and the lock released; anything else (JSONDecodeError, a
\* validation error, the file deleted since the existence check) goes to the
\* except clauses, which call create_session with the lock still held.
LoadRead(t) ==
    /\ task[t].pc = "load_read"
    /\ IF disk.kind = "doc"
       THEN /\ held' = held \ {task[t].outer}
            /\ task' = [task EXCEPT ![t].pc = AfterLoad(task[t].op),
                                    ![t].local = disk,
                                    ![t].lock = 0, ![t].outer = 0]
            /\ UNCHANGED <<locks, nextLock>>
       ELSE EnterSave(t, task[t].mgr, FreshDoc, task[t].op, task[t].outer, TRUE)
    /\ UNCHANGED <<disk, tmp, ckpt, ops, saved>>

\* The turn between its load and its save: process_conversation appends the
\* user input to the loaded object; then save_state is entered.
Mutate(t) ==
    /\ task[t].pc = "mutate"
    /\ EnterSave(t, task[t].mgr,
                 [task[t].local EXCEPT !.history = @ \cup {t}], "turn", 0, FALSE)
    /\ UNCHANGED <<disk, tmp, ckpt, ops, saved>>

\* create_checkpoint after load_state: the loaded object is written to the
\* checkpoint file.
CheckpointWrite(t) ==
    /\ task[t].pc = "ckpt_write"
    /\ ckpt' = task[t].local
    /\ task' = [task EXCEPT ![t] = IdleTask]
    /\ UNCHANGED <<disk, tmp, locks, held, nextLock, ops, saved>>

\* save_state inside its lock: the object is written to the temp file.
SaveWrite(t) ==
    /\ task[t].pc = "save_write"
    /\ tmp' = task[t].local
    /\ task' = [task EXCEPT ![t].pc = "save_rename"]
    /\ UNCHANGED <<disk, ckpt, locks, held, nextLock, ops, saved>>

\* save_state inside its lock: os.rename(temp, session file), then the lock
\* is released.  Without a temp file the rename raises, the error leaves
\* the operation and every lock of the task is released.  After the save of
\* create_session inside load_state, load_state returns; after the one of
\* start_new_conversation, save_state is called again.
SaveRename(t) ==
    /\ task[t].pc = "save_rename"
    /\ IF tmp.kind = "absent"
       THEN /\ held' = held \ {task[t].lock, task[t].outer}
            /\ task' = [task EXCEPT ![t] = IdleTask]
            /\ UNCHANGED <<disk, tmp, saved>>
       ELSE /\ disk' = tmp
            /\ tmp' = Absent
            /\ saved' = IF task[t].create THEN {} ELSE saved \cup {t}
            /\ held' = held \ {task[t].lock, task[t].outer}
            /\ task' = [task EXCEPT ![t] =
                          IF task[t].create /\ task[t].op \in {"turn", "checkpoint"}
                          THEN [IdleTask EXCEPT !.pc = AfterLoad(task[t].op),
                                                !.op = task[t].op,
                                                !.mgr = task[t].mgr,
                                                !.local = task[t].local]
                          ELSE IF task[t].op = "connect"
                          THEN [IdleTask EXCEPT !.pc = "resave", !.op = "connected",
                                                !.mgr = task[t].mgr,
                                                !.local = task[t].local]
                          ELSE IdleTask]
    /\ UNCHANGED <<ckpt, locks, nextLock, ops>>

\* start_new_conversation after create_session: add_message and save_state.
Resave(t) ==
    /\ task[t].pc = "resave"
    /\ EnterSave(t, task[t].mgr, task[t].local, "connected", 0, TRUE)
    /\ UNCHANGED <<disk, tmp, ckpt, ops, saved>>

\* The save errors the model follows over the life of the session id.
MaxSaveErrors == 2

\* What a write that raises leaves at the temp path: the file as it was
\* (open() itself raised) or a truncated, partly written file.
WriteLeaves == {"untouched", "partial"}

\* A mutant of remove_temp: the except clause leaves the temp file.
remove_temp_not(f) == f

\* save_state's except clause: "if os.path.exists(temp_file):
\* os.remove(temp_file)", applied to the file at the temp path.
remove_temp(f) == Absent

SaveFaultInit == save_errors = 0

\* save_state's except clause after the cleanup: "raise".  The exception
\* leaves save_state and the operation that called it; the locks of the
\* "async with" blocks it passes are released.
SaveRaise(t) ==
    /\ save_errors' = save_errors + 1
    /\ held' = held \ {task[t].lock, task[t].outer}
    /\ task' = [task EXCEPT ![t] = IdleTask]
    /\ UNCHANGED <<disk, ckpt, locks, nextLock, ops, saved>>

\* save_state inside its lock: aiofiles.open or f.write raises (no space,
\* no permission); the except clause removes the temp file and re-raises.
SaveWriteFails(t, left) ==
    /\ task[t].pc = "save_write"
    /\ save_errors < MaxSaveErrors
    /\ tmp' = remove_temp(IF left = "partial" THEN Corrupt ELSE tmp)
    /\ SaveRaise(t)

\* save_state inside its lock: os.rename raises although the temp file is
\* there (the session file cannot be replaced); the except clause removes
\* the temp file and re-raises.
SaveRenameFails(t) ==
    /\ task[t].pc = "save_rename"
    /\ tmp.kind # "absent"
    /\ save_errors < MaxSaveErrors
    /\ tmp' = remove_temp(tmp)
    /\ SaveRaise(t)

StoreInit ==
    /\ disk = Absent
    /\ tmp = Absent
    /\ ckpt = Absent
    /\ locks = [m \in Managers |-> 0]
    /\ held = {}
    /\ task = [t \in Tasks |-> IdleTask]
    /\ nextLock = 0
    /\ ops = 0
    /\ saved = {}

-----------------------------------------------------------------------------
(* Spec: one session, one orchestrator turn after the other                *)

\* A mutant of Loaded: an expired session is returned unmarked.
Loaded_unmarked(doc, expired) == doc

\* SessionManager.load_state on an existing, readable file: the document,
\* marked ERROR / "Session expired" when it is older than the TTL.
Loaded(doc, expired) ==
    IF expired
    THEN [doc EXCEPT !.current_state = "ERROR", !.error_message = "Session expired"]
    ELSE doc

\* ConversationAgent._handle_user_response, choice question, matching reply:
\* the field is set and the question cleared (agent.py 381-395).
ChoiceAccepted(s) ==
    [s EXCEPT !.requirements.project_type =
                  IF s.pending_question = "choice_project_type" THEN TRUE ELSE @,
              !.pending_question = "None"]

\* handle_websocket_message(user_message / user_response) up to the first
\* stream: load_state, process_conversation, _handle_user_response.
\*   reply    "good": the reply matches an option / is an affirmative token;
\*   expired  the stored session is older than the TTL;
\*   env      what the capability probe does when it is called;
\*   f        the send that raises: "none", "first" (choice_accepted,
\*            choice_invalid, permission_granted, permission_denied) or
\*            "processed" (user_response_processed).
UserTurn(reply, expired, env, f) ==
    /\ pc = "idle"
    /\ LET s0 == Loaded(ss, expired)
           q  == s0.pending_question
           Go(s, next) == Step(s, next, "none", NoAuto, << >>)
           Valid(s) == IF s.waiting_for_user
                       THEN IF f = "processed"
                            THEN Go([s EXCEPT !.waiting_for_user = FALSE], "turn_except")
                            ELSE Go([s EXCEPT !.waiting_for_user = FALSE], "streaming")
                       ELSE Go(s, "streaming")
       IN
       IF q = "None" THEN Go(s0, "streaming")
       ELSE IF q = "permission"
       THEN IF reply = "good"
            THEN LET s1 == [s0 EXCEPT !.permissions = TRUE]
                     s2 == IF env = "raises" THEN s1
                           ELSE [s1 EXCEPT !.capabilities = TRUE]
                 IN  IF f = "first" THEN Go(s1, "turn_except")
                     ELSE Valid([s2 EXCEPT !.pending_question = "None"])
            ELSE IF f = "first" THEN Go(s0, "turn_except")
                 ELSE Valid([s0 EXCEPT !.pending_question = "None"])
       ELSE IF reply = "good"
            THEN IF f = "first" THEN Go(ChoiceAccepted(s0), "turn_except")
                 ELSE Valid(ChoiceAccepted(s0))
            ELSE IF f = "first" THEN Go(s0, "turn_except")
                 ELSE Go(s0, "streaming")

\* A function_call chunk: FunctionRegistry.execute, then the status branches
\* of _process_with_gemini (agent.py 587-833).
\*   env2  what the execution engine does for the automatic
\*         execute_project_creation after plan_generated.
ChunkCall(call, env, env2, extracted, f) ==
    /\ pc = "streaming"
    /\ calls < MaxCalls
    /\ LET x  == execute(call, env, extracted, ss, f)
           d  == << x.dispatch >>
       IN
       IF x.raised \/ f = "result"
       THEN Step(x.session, "gemini_except", "dispatch", x.auto, d)
       ELSE IF x.status \in {"waiting_for_user", "permission_requested"}
       THEN Step([x.session EXCEPT !.waiting_for_user = TRUE], "returned",
                 "dispatch", x.auto, d)
       ELSE IF x.status = "execution_completed"
       THEN Step(AgentRecord(update_state(x.session, "COMPLETED"), call.name, x.status),
                 "streaming", "dispatch", x.auto, d)
       ELSE IF x.status = "plan_generated"
       THEN LET y == execute([name |-> "execute_project_creation", arg |-> "ok"],
                             env2, "nothing", x.session, "none")
            IN  Step(AgentRecord(y.session, call.name, x.status), "streaming",
                     "dispatch", x.auto, d \o << y.dispatch >>)
       ELSE Step(AgentRecord(x.session, call.name, x.status), "streaming",
                 "dispatch", x.auto, d)

\* The finish chunk (agent.py 836-907): _should_advance_workflow,
\* auto_transition, and on a state change save_state and a nested
\* _process_with_gemini, after which every frame breaks out of its loop.
\*   f  the send that raises: "none", "before" (before auto_transition) or
\*      "after" (state_transitioned / iteration_complete).
ChunkFinish(f) ==
    /\ pc = "streaming"
    /\ LET adv == should_advance_workflow(ss)
           r   == auto_transition(ss)
       IN
       IF adv = "raises" \/ f = "before" \/ (adv = "no" /\ f = "after")
       THEN Step(ss, "gemini_except", "finish", NoAuto, << >>)
       ELSE IF adv = "no"
       THEN Step(ss, "returned", "finish", NoAuto, << >>)
       ELSE IF f = "after"
       THEN Step(r.session, "gemini_except", "finish", AutoCall(ss), << >>)
       ELSE IF r.session.current_state # ss.current_state
       THEN Step(r.session, "streaming", "finish", AutoCall(ss), << >>)
       ELSE Step(r.session, "returned", "finish", AutoCall(ss), << >>)

\* client.stream_completion or process_chunk raises.
StreamRaises ==
    /\ pc = "streaming"
    /\ Step(ss, "gemini_except", "none", NoAuto, << >>)

\* The stream ends without a finish chunk: the loop and every frame return.
StreamEnds ==
    /\ pc = "streaming"
    /\ Step(ss, "returned", "none", NoAuto, << >>)

\* The except block of _process_with_gemini (agent.py 909-920), in every
\* frame of the running turn.  handled: the ai_message send of some frame
\* succeeds and the frames return; otherwise the exception reaches
\* process_conversation.
GeminiExcept(handled) ==
    /\ pc = "gemini_except"
    /\ Step(ss, IF handled THEN "returned" ELSE "turn_except", "none",
            NoAuto, << >>)

\* The except block of process_conversation (agent.py 338-346).
\*   ef  the error send succeeds; otherwise the exception leaves the turn.
TurnExcept(ef) ==
    /\ pc = "turn_except"
    /\ Step([ss EXCEPT !.error_message = "exception"],
            IF ef THEN "returned" ELSE "raised", "none", NoAuto, << >>)

\* handle_websocket_message after process_conversation returned: save_state;
\* the next turn loads what was saved.  (When process_conversation raised,
\* the save is skipped and the object dropped: the model follows the
\* session no further, pc stays "raised".)
TurnEnd ==
    /\ pc = "returned"
    /\ ss' = ss
    /\ pc' = "idle"
    /\ ev' = Event("none", NoAuto, << >>)
    /\ UNCHANGED <<calls, trail>>

\* The inputs of ChunkCall that make a difference to the call.
CallEnvs(call) ==
    IF call.name \in {"detect_system_capabilities", "generate_execution_plan",
                      "create_project_with_steps", "execute_project_creation"}
    THEN EnvOutcomes ELSE {"ok"}

CallEnvs2(call, env) ==
    IF call.name = "generate_execution_plan" /\ env = "ok"
    THEN EnvOutcomes ELSE {"ok"}

CallExtractions(call) ==
    IF call.name \in ProjectCreationFunctions
    THEN {"nothing", "type_language"} ELSE {"nothing"}

StoreIdle == UNCHANGED <<storeVars, extVars>>

TurnInit ==
    /\ ss = SessionState
    /\ pc = "idle"
    /\ calls = 0
    /\ ev = Event("none", NoAuto, << >>)
    /\ trail = NoTrail

-----------------------------------------------------------------------------
(* gemini/function_registry.py: create_project_with_steps                  *)

\* The longest step list the reasoning capability hands over or regenerates.
MaxSteps == 2

\* The entries failed_steps is followed to (a step whose working directory
\* cannot be created is retried without end, one entry per retry).
MaxFailed == 3

\* "while i < len(steps) and attempts !=5".
MaxRegenerations == 5

NoReturn == [status |-> "None", successful_steps |-> 0, failed_steps |-> 0]
Return(st) == [status |-> st, successful_steps |-> 0, failed_steps |-> 0]

\* What ai_generate_project_steps does when asked to regenerate the steps:
\* a new non-empty list, no usable list, or an exception.
Regenerations ==
    {[kind |-> "steps", n |-> n] : n \in 1..MaxSteps}
      \cup {[kind |-> "failed", n |-> 0], [kind |-> "raises", n |-> 0]}

\* What happens to one step of the list:
\*   file_created   CREATE_FILE wrote the file
\*   shell_ok       the shell command exited 0
\*   raises         an exception inside the step's try block
\*   mkdir_failed   the working directory could not be created
\*   alt_ok         non-zero exit, the AI's alternative command exited 0
\*   alt_failed     non-zero exit, the AI's alternative failed as well
\*   no_alternative non-zero exit, the AI names no alternative
\*                  (tech_switch_needed, max_attempts_reached, no_alternative)
\*   ai_error       non-zero exit, suggest_alternative_command returned "error"
StepOutcomes ==
    { "file_created", "shell_ok", "raises", "mkdir_failed", "alt_ok",
      "alt_failed", "no_alternative", "ai_error" }

\* _try_technology_switch: fail_technology_and_switch switched, failed, or
\* failed after _reset_execution_state had set should_regenerate_steps.
SwitchOutcomes == {"switched", "failed", "failed_after_reset"}

ProjectInit ==
    /\ cpsPc = "idle"
    /\ steps_len = 0
    /\ step_i = 0
    /\ attempts = 0
    /\ should_regenerate_steps = FALSE
    /\ results = [ok |-> 0, bad |-> 0]
    /\ failed_steps = 0
    /\ cpsRet = NoReturn
    /\ regenerated = 0
    /\ unrecovered = FALSE

\* create_project_with_steps is called with n steps: the regeneration before
\* the loop when the flag is set (function_registry.py 808-888), then the
\* set-up of the project directory (911-990).
\*   regen  what ai_generate_project_steps does when it is asked;
\*   setup  the set-up succeeds or raises.
CreateProjectEntry(n, regen, setup) ==
    /\ cpsPc = "idle"
    /\ LET replaced == should_regenerate_steps /\ regen.kind = "steps"
       IN  /\ steps_len' = IF replaced THEN regen.n ELSE n
           /\ regenerated' = IF replaced THEN 1 ELSE 0
    /\ should_regenerate_steps' = FALSE
    /\ step_i' = 0
    /\ attempts' = 0
    /\ results' = [ok |-> 0, bad |-> 0]
    /\ failed_steps' = 0
    /\ unrecovered' = FALSE
    /\ IF setup = "raises"
       THEN cpsPc' = "done" /\ cpsRet' = Return("creation_failed")
       ELSE cpsPc' = "loop" /\ cpsRet' = NoReturn

\* The effect of _try_technology_switch on the session's flag.
Switched(sw) == should_regenerate_steps \/ sw \in {"switched", "failed_after_reset"}

\* One iteration of "while i < len(steps) and attempts != 5"
\* (function_registry.py 992-1412).
CreateProjectStep(o, sw, regen) ==
    /\ cpsPc = "loop"
    /\ step_i < steps_len
    /\ attempts # MaxRegenerations
    /\ IF should_regenerate_steps
       THEN \* the flag is cleared and the steps are regenerated (997-1058)
            /\ should_regenerate_steps' = FALSE
            /\ UNCHANGED <<results, failed_steps>>
            /\ IF regen.kind = "steps"
               THEN /\ step_i' = -1
                    /\ steps_len' = regen.n
                    /\ attempts' = attempts + 1
                    /\ regenerated' = regenerated + 1
                    /\ unrecovered' = FALSE
                    /\ UNCHANGED <<cpsPc, cpsRet>>
               ELSE /\ cpsPc' = "done"
                    /\ cpsRet' = Return(IF regen.kind = "failed"
                                        THEN "regenerate_steps_failed"
                                        ELSE "regenerate_steps_error")
                    /\ UNCHANGED <<step_i, steps_len, attempts, regenerated,
                                   unrecovered>>
       ELSE \* the step steps[i] is executed (1060-1412); i = -1 is the last one
            /\ o \in {"raises", "mkdir_failed", "ai_error"} => failed_steps < MaxFailed
            /\ results' =
                 IF o \in {"file_created", "shell_ok"}
                 THEN [results EXCEPT !.ok = @ + 1]
                 ELSE IF o = "mkdir_failed" THEN results
                 ELSE [results EXCEPT !.bad = @ + 1]
            /\ failed_steps' =
                 IF o \in {"raises", "mkdir_failed", "ai_error"}
                 THEN failed_steps + 1 ELSE failed_steps
            /\ should_regenerate_steps' =
                 IF o \in {"alt_failed", "no_alternative"} THEN Switched(sw)
                 ELSE should_regenerate_steps
            /\ unrecovered' =
                 (unrecovered \/ (o \in {"alt_failed", "no_alternative"} /\ sw = "failed"))
            /\ step_i' = IF o \in {"mkdir_failed", "no_alternative"}
                         THEN step_i ELSE step_i + 1
            /\ cpsPc' = IF o = "no_alternative" THEN "exit" ELSE "loop"
            /\ UNCHANGED <<steps_len, attempts, regenerated, cpsRet>>

\* After the loop (function_registry.py 1414-1514): the report.  No entry of
\* results carries "ai_recovery_suggested", so "ai_recovery_needed" is never
\* returned; an empty step list makes the success rate divide by zero, which
\* the outer except turns into "creation_failed".
CreateProjectReport ==
    /\ \/ cpsPc = "exit"
       \/ cpsPc = "loop" /\ ~(step_i < steps_len /\ attempts # MaxRegenerations)
    /\ cpsPc' = "done"
    /\ cpsRet' =
         IF should_regenerate_steps THEN Return("regenerate_steps_needed")
         ELSE IF steps_len = 0 THEN Return("creation_failed")
         ELSE [ status           |-> "execution_completed",
                successful_steps |-> steps_len - failed_steps,
                failed_steps     |-> failed_steps ]
    /\ UNCHANGED <<steps_len, step_i, attempts, should_regenerate_steps, results,
                   failed_steps, regenerated, unrecovered>>

\* FunctionRegistry.execute hands the result to the agent.
CreateProjectReturn ==
    /\ cpsPc = "done"
    /\ cpsPc' = "idle"
    /\ UNCHANGED <<steps_len, step_i, attempts, should_regenerate_steps, results,
                   failed_steps, cpsRet, regenerated, unrecovered>>

-----------------------------------------------------------------------------
(* core/agent.py: replies to a pending question                            *)

\* Text is a sequence of characters.  str.lower() on the letters in use.
UpperCase == << "A", "B", "C", "D", "E", "F", "G", "H", "I", "J", "K", "L", "M",
                "N", "O", "P", "Q", "R", "S", "T", "U", "V", "W", "X", "Y", "Z" >>
LowerCase == << "a", "b", "c", "d", "e", "f", "g", "h", "i", "j", "k", "l", "m",
                "n", "o", "p", "q", "r", "s", "t", "u", "v", "w", "x", "y", "z" >>

lower(s) ==
    [k \in 1..Len(s) |->
        IF \E u \in 1..Len(UpperCase) : UpperCase[u] = s[k]
        THEN LowerCase[CHOOSE u \in 1..Len(UpperCase) : UpperCase[u] = s[k]]
        ELSE s[k]]

\* str.strip(): leading and trailing whitespace removed.
strip(s) ==
    LET inked == {k \in 1..Len(s) : s[k] # " "}
    IN  IF inked = {} THEN << >>
        ELSE SubSeq(s, CHOOSE k \in inked : \A j \in inked : k <= j,
                       CHOOSE k \in inked : \A j \in inked : k >= j)

\* Python's "sub in s" for text.
contains(sub, s) ==
    \E k \in 0..(Len(s) - Len(sub)) : SubSeq(s, k + 1, k + Len(sub)) = sub

\* project_type_mappings of _map_project_type_string, in dictionary order.
project_type_mappings ==
    << [key |-> << "w", "e", "b", " ", "a", "p", "p" >>,
        type |-> "FULLSTACK"],
       [key |-> << "w", "e", "b", " ", "a", "p", "p", "l", "i", "c", "a", "t", "i", "o", "n" >>,
        type |-> "FULLSTACK"],
       [key |-> << "w", "e", "b", "s", "i", "t", "e" >>,
        type |-> "FRONTEND"],
       [key |-> << "f", "r", "o", "n", "t", "e", "n", "d" >>,
        type |-> "FRONTEND"],
       [key |-> << "w", "e", "b", " ", "f", "r", "o", "n", "t", "e", "n", "d" >>,
        type |-> "FRONTEND"],
       [key |-> << "r", "e", "a", "c", "t", " ", "a", "p", "p" >>,
        type |-> "FRONTEND"],
       [key |-> << "v", "u", "e", " ", "a", "p", "p" >>,
        type |-> "FRONTEND"],
       [key |-> << "a", "n", "g", "u", "l", "a", "r", " ", "a", "p", "p" >>,
        type |-> "FRONTEND"],
       [key |-> << "a", "p", "i" >>,
        type |-> "WEB_API"],
       [key |-> << "w", "e", "b", " ", "a", "p", "i" >>,
        type |-> "WEB_API"],
       [key |-> << "r", "e", "s", "t", " ", "a", "p", "i" >>,
        type |-> "WEB_API"],
       [key |-> << "b", "a", "c", "k", "e", "n", "d" >>,
        type |-> "WEB_API"],
       [key |-> << "w", "e", "b", " ", "b", "a", "c", "k", "e", "n", "d" >>,
        type |-> "WEB_API"],
       [key |-> << "s", "e", "r", "v", "e", "r" >>,
        type |-> "WEB_API"],
       [key |-> << "f", "u", "l", "l", "s", "t", "a", "c", "k" >>,
        type |-> "FULLSTACK"],
       [key |-> << "f", "u", "l", "l", " ", "s", "t", "a", "c", "k" >>,
        type |-> "FULLSTACK"],
       [key |-> << "f", "u", "l", "l", "-", "s", "t", "a", "c", "k" >>,
        type |-> "FULLSTACK"],
       [key |-> << "f", "u", "l", "l", "s", "t", "a", "c", "k", " ", "a", "p", "p" >>,
        type |-> "FULLSTACK"],
       [key |-> << "t", "o", "d", "o", " ", "a", "p", "p" >>,
        type |-> "FULLSTACK"],
       [key |-> << "w", "e", "b", " ", "a", "p", "p", " ", "w", "i", "t", "h", " ", "b", "a", "c", "k", "e", "n", "d" >>,
        type |-> "FULLSTACK"],
       [key |-> << "c", "l", "i" >>,
        type |-> "CLI"],
       [key |-> << "c", "o", "m", "m", "a", "n", "d", " ", "l", "i", "n", "e" >>,
        type |-> "CLI"],
       [key |-> << "c", "o", "m", "m", "a", "n", "d", " ", "l", "i", "n", "e", " ", "t", "o", "o", "l" >>,
        type |-> "CLI"],
       [key |-> << "t", "e", "r", "m", "i", "n", "a", "l", " ", "a", "p", "p" >>,
        type |-> "CLI"],
       [key |-> << "m", "o", "b", "i", "l", "e" >>,
        type |-> "MOBILE_APP"],
       [key |-> << "m", "o", "b", "i", "l", "e", " ", "a", "p", "p" >>,
        type |-> "MOBILE_APP"],
       [key |-> << "a", "n", "d", "r", "o", "i", "d", " ", "a", "p", "p" >>,
        type |-> "MOBILE_APP"],
       [key |-> << "i", "o", "s", " ", "a", "p", "p" >>,
        type |-> "MOBILE_APP"],
       [key |-> << "l", "i", "b", "r", "a", "r", "y" >>,
        type |-> "LIBRARY"],
       [key |-> << "p", "a", "c", "k", "a", "g", "e" >>,
        type |-> "LIBRARY"],
       [key |-> << "s", "d", "k" >>,
        type |-> "LIBRARY"],
       [key |-> << "m", "i", "c", "r", "o", "s", "e", "r", "v", "i", "c", "e" >>,
        type |-> "MICROSERVICE"],
       [key |-> << "m", "i", "c", "r", "o", " ", "s", "e", "r", "v", "i", "c", "e" >>,
        type |-> "MICROSERVICE"],
       [key |-> << "s", "e", "r", "v", "i", "c", "e" >>,
        type |-> "MICROSERVICE"] >>

\* The members of ProjectType with their values, in definition order.
ProjectType ==
    << [type |-> "WEB_API", value |-> << "w", "e", "b", "_", "a", "p", "i" >>],
       [type |-> "FRONTEND", value |-> << "f", "r", "o", "n", "t", "e", "n", "d" >>],
       [type |-> "CLI", value |-> << "c", "l", "i" >>],
       [type |-> "MOBILE_APP", value |-> << "m", "o", "b", "i", "l", "e", "_", "a", "p", "p" >>],
       [type |-> "FULLSTACK", value |-> << "f", "u", "l", "l", "s", "t", "a", "c", "k" >>],
       [type |-> "LIBRARY", value |-> << "l", "i", "b", "r", "a", "r", "y" >>],
       [type |-> "MICROSERVICE", value |-> << "m", "i", "c", "r", "o", "s", "e", "r", "v", "i", "c", "e" >>] >>

\* ConversationAgent._map_project_type_string: exact key, then the first key
\* that contains the input or is contained in it, then a member's value,
\* then FULLSTACK.
map_project_type_string(project_type_input) ==
    LET input_lower == strip(lower(project_type_input))
        keys    == 1..Len(project_type_mappings)
        exact   == {k \in keys : project_type_mappings[k].key = input_lower}
        partial == {k \in keys :
                       \/ contains(project_type_mappings[k].key, input_lower)
                       \/ contains(input_lower, project_type_mappings[k].key)}
        members == {k \in 1..Len(ProjectType) :
                       lower(ProjectType[k].value) = input_lower}
        First(S) == CHOOSE k \in S : \A j \in S : k <= j
    IN  IF exact # {} THEN project_type_mappings[First(exact)].type
        ELSE IF partial # {} THEN project_type_mappings[First(partial)].type
        ELSE IF members # {} THEN ProjectType[First(members)].type
        ELSE "FULLSTACK"

\* Values of the fields of session_state.requirements: nothing, a text, or a
\* member of ProjectType.
NoValue == [kind |-> "None", text |-> << >>, type |-> "None"]
Text(s) == [kind |-> "str", text |-> s, type |-> "None"]
Member(m) == [kind |-> "ProjectType", text |-> << >>, type |-> m]

\* session_state.pending_question as ask_user_preference and
\* request_permission store it.
NoQuestion == [type |-> "None", field |-> "None", options |-> << >>]
Choice(field, options) == [type |-> "choice", field |-> field, options |-> options]
Permission == [type |-> "permission", field |-> "None", options |-> << >>]

\* The test of the loop over the options in _handle_user_response.
choice_match_exact(user_lower, option) == lower(option) = user_lower

choice_match(user_lower, option) ==
    lower(option) = user_lower \/ contains(user_lower, lower(option))

\* The option the loop selects: the first one that matches (0: none).
selected_option(user_input, options) ==
    LET user_lower == strip(lower(user_input))
        hits == {k \in 1..Len(options) : choice_match(user_lower, options[k])}
    IN  IF hits = {} THEN 0 ELSE CHOOSE k \in hits : \A j \in hits : k <= j

\* The affirmative replies to a permission question.
AffirmativeTokens ==
    { << "y", "e", "s" >>, << "y" >>, << "o", "k" >>,
      << "a", "l", "l", "o", "w" >>, << "g", "r", "a", "n", "t" >>,
      << "a", "p", "p", "r", "o", "v", "e" >> }

permission_granted(user_input) == strip(lower(user_input)) \in AffirmativeTokens

\* The option lists the reasoning capability asks with.
OptionLists ==
    { << << "s", "q", "l", "i", "t", "e" >>, << "p", "o", "s", "t", "g", "r", "e", "s", "q", "l" >> >>,
      << << "w", "e", "b", " ", "a", "p", "p" >>, << "c", "l", "i" >> >>,
      << << "P", "o", "s", "t", "g", "r", "e", "S", "Q", "L" >> >>,
      << >> }

\* The replies the user gives.
Replies ==
    { << "P", "o", "s", "t", "g", "r", "e", "s" >>,
      << "p", "o", "s", "t", "g", "r", "e", "s", "q", "l" >>,
      << " ", "P", "o", "s", "t", "g", "r", "e", "s", " " >>,
      << "S", "Q", "L" >>,
      << "m", "y", "s", "q", "l" >>,
      << >>,
      << "c", "l", "i" >>,
      << "W", "e", "b" >>,
      << "y", "e", "s" >>,
      << "Y" >>,
      << " ", "O", "K", " " >>,
      << "a", "l", "l", "o", "w" >>,
      << "g", "r", "a", "n", "t" >>,
      << "a", "p", "p", "r", "o", "v", "e" >>,
      << "n", "o" >>,
      << "y", "e", "s", " ", "p", "l", "e", "a", "s", "e" >>,
      << "y", "e" >> }

\* The fields a choice question names: two attributes of the requirements
\* and a name that is no attribute of them.
QuestionFields == {"database", "project_type", "deadline"}
RequirementFields == {"database", "project_type"}

Questions ==
    {Choice(f, o) : f \in QuestionFields, o \in OptionLists} \cup {Permission}

\* A session that waits with the question q pending, and the reply to it.
MatchInit ==
    /\ mAsked \in Questions
    /\ mQuestion = mAsked
    /\ mReply \in Replies
    /\ mWaiting = TRUE
    /\ mReq = [f \in RequirementFields |-> NoValue]
    /\ mGranted = FALSE
    /\ mPos = "asked"

\* No question has been asked.
MatchRest ==
    /\ mAsked = NoQuestion
    /\ mQuestion = NoQuestion
    /\ mReply = << >>
    /\ mWaiting = FALSE
    /\ mReq = [f \in RequirementFields |-> NoValue]
    /\ mGranted = FALSE
    /\ mPos = "none"

\* process_conversation up to _process_with_gemini (agent.py 309-336) with
\* _handle_user_response (agent.py 348-534) for the pending question.
\*   f  the send that raises: "none", "first" (choice_accepted,
\*      choice_invalid, permission_granted, permission_denied) or
\*      "processed" (user_response_processed).
\* mPos afterwards: "gemini" (_process_with_gemini is entered) or "except"
\* (the except block of process_conversation).
HandleReply(f) ==
    /\ mPos = "asked"
    /\ UNCHANGED <<mAsked, mReply>>
    /\ LET q   == mQuestion
           sel == selected_option(mReply, q.options)
           Valid == \* "if response_valid and session_state.waiting_for_user"
               /\ mWaiting' = FALSE
               /\ mPos' = IF f = "processed" THEN "except" ELSE "gemini"
       IN
       IF q.type = "choice"
       THEN /\ mGranted' = mGranted
            /\ IF sel # 0
               THEN /\ mReq' =
                         IF q.field \in RequirementFields
                         THEN [mReq EXCEPT ![q.field] =
                                 IF q.field = "project_type"
                                 THEN Member(map_project_type_string(q.options[sel]))
                                 ELSE Text(q.options[sel])]
                         ELSE mReq
                    /\ mQuestion' = NoQuestion
                    /\ IF f = "first"
                       THEN mPos' = "except" /\ mWaiting' = mWaiting
                       ELSE Valid
               ELSE /\ UNCHANGED <<mReq, mQuestion, mWaiting>>
                    /\ mPos' = IF f = "first" THEN "except" ELSE "gemini"
       ELSE /\ mReq' = mReq
            /\ mGranted' = (mGranted \/ permission_granted(mReply))
            /\ IF f = "first"
               THEN /\ mPos' = "except"
                    /\ UNCHANGED <<mQuestion, mWaiting>>
               ELSE /\ mQuestion' = NoQuestion
                    /\ Valid

-----------------------------------------------------------------------------
(* execution/engine.py: ExecutionEngine.execute_plan                       *)

\* The longest plan followed.
MaxPlan == 3

\* An ExecutionStep, by what execute_plan reads of it: fallback_command is
\* set (not None and not empty).
ExecutionSteps == [fallback_command : BOOLEAN]

\* ExecutionPlan.steps.
Plans == UNION {[1..n -> ExecutionSteps] : n \in 0..MaxPlan}

\* How a command ends in execute_step: exit code 0, another exit code, the
\* timeout (exit code 1), or an exception (empty command, spawn failure).
CommandEnds == {"exit_zero", "exit_nonzero", "timeout", "exception"}

\* Where the websocket is lost during one pass of the loop: the first
\* send_json that raises.  A send that raises inside execute_step is caught
\* there, and the handler's own send raises in turn.
SendLosses == {"never", "command_start", "in_step", "command_error"}

\* execute_step: the ExecutionResult of running a command of step step_index.
execute_step(step_index, command, end) ==
    [ step_index    |-> step_index,
      command       |-> command,
      success       |-> (end = "exit_zero"),
      fallback_used |-> FALSE ]

\* A mutant of stops_without_fallback: a failed step never stops the plan.
stops_without_fallback_never(result, step) == FALSE

\* "if not result.success and not step.fallback_command".
stops_without_fallback(result, step) ==
    ~result.success /\ ~step.fallback_command

\* "elif not result.success and step.fallback_command".
tries_fallback(result, step) ==
    ~result.success /\ step.fallback_command

\* A mutant of mark_fallback: the fallback's result is recorded unmarked.
mark_fallback_not(result) == result

\* "fallback_result.fallback_used = True".
mark_fallback(result) == [result EXCEPT !.fallback_used = TRUE]

\* What engRan records of a call of execute_step.
Ran(step_index, command, end) ==
    [step_index |-> step_index, command |-> command, end |-> end]

EngineInit ==
    /\ execution_plan = << >>
    /\ websocket = FALSE
    /\ engPc = "idle"
    /\ eng_i = 0
    /\ engResults = << >>
    /\ engRan = << >>

\* execute_plan is called: results = [].
ExecutePlanEntry(plan, ws) ==
    /\ engPc = "idle"
    /\ execution_plan' = plan
    /\ websocket' = ws
    /\ engPc' = "loop"
    /\ eng_i' = 0
    /\ engResults' = << >>
    /\ engRan' = << >>

\* One pass of "for i, step in enumerate(execution_plan.steps)" up to the
\* check of the step's result: command_start, execute_step, append, and the
\* branch on the result.
ExecuteStepPrimary(end, lost) ==
    /\ engPc = "loop"
    /\ eng_i < Len(execution_plan)
    /\ ~websocket => lost = "never"
    /\ LET step   == execution_plan[eng_i + 1]
           result == execute_step(eng_i, "command", end)
       IN  IF lost = "command_start"
           THEN /\ engPc' = "raised"
                /\ UNCHANGED <<eng_i, engResults, engRan>>
           ELSE /\ engRan' = Append(engRan, Ran(eng_i, "command", end))
                /\ IF lost = "in_step"
                   THEN /\ engPc' = "raised"
                        /\ UNCHANGED <<eng_i, engResults>>
                   ELSE /\ engResults' = Append(engResults, result)
                        /\ IF stops_without_fallback(result, step)
                           THEN /\ engPc' = IF lost = "command_error"
                                            THEN "raised" ELSE "returned"
                                /\ eng_i' = eng_i
                           ELSE IF tries_fallback(result, step)
                           THEN /\ engPc' = "fallback"
                                /\ eng_i' = eng_i
                           ELSE /\ engPc' = "loop"
                                /\ eng_i' = eng_i + 1
    /\ UNCHANGED <<execution_plan, websocket>>

\* The fallback branch of the pass: execute_step on the fallback command,
\* the mark, append, and the break when it failed too.
ExecuteStepFallback(end, lost) ==
    /\ engPc = "fallback"
    /\ lost \in {"never", "in_step"}
    /\ ~websocket => lost = "never"
    /\ LET fallback_result ==
               mark_fallback(execute_step(eng_i, "fallback_command", end))
       IN  /\ engRan' = Append(engRan, Ran(eng_i, "fallback_command", end))
           /\ IF lost = "in_step"
              THEN /\ engPc' = "raised"
                   /\ UNCHANGED <<eng_i, engResults>>
              ELSE /\ engResults' = Append(engResults, fallback_result)
                   /\ IF ~fallback_result.success
                      THEN engPc' = "returned" /\ eng_i' = eng_i
                      ELSE engPc' = "loop" /\ eng_i' = eng_i + 1
    /\ UNCHANGED <<execution_plan, websocket>>

\* The loop is exhausted: "return results".
ExecutePlanReturn ==
    /\ engPc = "loop"
    /\ eng_i = Len(execution_plan)
    /\ engPc' = "returned"
    /\ UNCHANGED <<execution_plan, websocket, eng_i, engResults, engRan>>

\* The caller has the results (or the exception); the engine is free again.
ExecutePlanCaller ==
    /\ engPc \in {"returned", "raised"}
    /\ engPc' = "idle"
    /\ UNCHANGED <<execution_plan, websocket, eng_i, engResults, engRan>>

-----------------------------------------------------------------------------
(* core/session_manager.py: expiry of stored sessions                      *)

\* The session ids in the session directory, in os.listdir order.
NumSessions == 2
Sessions == 1..NumSessions

\* The time the model follows, and settings.SESSION_TIMEOUT in its units.
MaxTime == 4
session_timeout == 2

\* A session file: absent, or a document with updated_at, current_state and
\* error_message.
NoFile == [exists |-> FALSE, updated_at |-> 0, current_state |-> "None",
           error_message |-> "None"]
File(at, st, msg) ==
    [exists |-> TRUE, updated_at |-> at, current_state |-> st, error_message |-> msg]

\* SessionManager._is_session_expired, at time t.
is_session_expired(session_state, t) ==
    t > session_state.updated_at + session_timeout

\* What a load_state call gave its caller: the session id, whether the stored
\* session was older than the timeout when it was read, whether the call
\* raised, and the session returned.
NoLoad == [id |-> 0, old |-> FALSE, raised |-> FALSE, session |-> NoFile]
LoadResult(s, old, session) ==
    [id |-> s, old |-> old, raised |-> FALSE, session |-> session]

\* create_session: SessionState(current_state=INIT, updated_at=now), saved.
created_session(t) == File(t, "INIT", "None")

\* load_state(s) at time t: a missing file means create_session; a stored
\* session is returned, marked when it has expired.
load_state(f, t) ==
    IF f.exists THEN Loaded(f, is_session_expired(f, t)) ELSE created_session(t)

ExpiryInit ==
    /\ clock = 0
    /\ files = [s \in Sessions |-> NoFile]
    /\ loaded = NoLoad
    /\ swPc = "idle"
    /\ swList = << >>
    /\ swState = [id |-> 0, session |-> NoFile]
    /\ cleaned = 0
    /\ removed = 0
    /\ removedLive = FALSE

\* Time passes.
Tick ==
    /\ clock < MaxTime
    /\ clock' = clock + 1
    /\ UNCHANGED <<files, loaded, swPc, swList, swState, cleaned, removed, removedLive>>

\* save_state of a turn (or of create_session) on session s: updated_at is
\* set to now and the file replaced.
SaveSession(s, st) ==
    /\ files' = [files EXCEPT ![s] = File(clock, st, "None")]
    /\ UNCHANGED <<clock, loaded, swPc, swList, swState, cleaned, removed, removedLive>>

\* A caller's load_state(s).
LoadState(s) ==
    /\ loaded' = LoadResult(s, files[s].exists /\ clock - files[s].updated_at > session_timeout,
                            load_state(files[s], clock))
    /\ files' = [files EXCEPT ![s] = IF @.exists THEN @ ELSE created_session(clock)]
    /\ UNCHANGED <<clock, swPc, swList, swState, cleaned, removed, removedLive>>

\* list_sessions: the ids of the files in the session directory.
list_sessions == SelectSeq([s \in Sessions |-> s], LAMBDA s : files[s].exists)

\* cleanup_expired_sessions is called: cleaned = 0, list_sessions.
CleanupEntry ==
    /\ swPc = "idle"
    /\ swList' = list_sessions
    /\ cleaned' = 0
    /\ removed' = 0
    /\ removedLive' = FALSE
    /\ swPc' = "load"
    /\ UNCHANGED <<clock, files, loaded, swState>>

\* The loop's load_state of the next session; the coroutine is suspended
\* while the file is closed, after the content has been read.
CleanupLoad ==
    /\ swPc = "load"
    /\ swList # << >>
    /\ LET s == Head(swList)
       IN  /\ swState' = [id |-> s, session |-> load_state(files[s], clock)]
           /\ files' = [files EXCEPT ![s] = IF @.exists THEN @ ELSE created_session(clock)]
    /\ swPc' = "check"
    /\ UNCHANGED <<clock, loaded, swList, cleaned, removed, removedLive>>

\* The loop's body after the load: _is_session_expired on the loaded
\* object, delete_session (which removes the file if it is there) and
\* cleaned += 1.
CleanupCheck ==
    /\ swPc = "check"
    /\ LET s == swState.id
       IN  IF is_session_expired(swState.session, clock)
           THEN /\ files' = [files EXCEPT ![s] = NoFile]
                /\ cleaned' = cleaned + 1
                /\ removed' = IF files[s].exists THEN removed + 1 ELSE removed
                /\ removedLive' = (removedLive \/ (/\ files[s].exists
                                                   /\ ~is_session_expired(files[s], clock)))
           ELSE UNCHANGED <<files, cleaned, removed, removedLive>>
    /\ swList' = Tail(swList)
    /\ swPc' = "load"
    /\ UNCHANGED <<clock, loaded, swState>>

\* The loop is exhausted: "return cleaned".
CleanupReturn ==
    /\ swPc = "load"
    /\ swList = << >>
    /\ swPc' = "done"
    /\ UNCHANGED <<clock, files, loaded, swList, swState, cleaned, removed, removedLive>>

\* The caller has the count; the call's frame is gone.
CleanupCaller ==
    /\ swPc = "done"
    /\ swPc' = "idle"
    /\ swState' = [id |-> 0, session |-> NoFile]
    /\ cleaned' = 0
    /\ removed' = 0
    /\ removedLive' = FALSE
    /\ UNCHANGED <<clock, files, loaded, swList>>

\* delete_session(s) of a client (DELETE /sessions/{id}).
DeleteStored(s) ==
    /\ files[s].exists
    /\ files' = [files EXCEPT ![s] = NoFile]
    /\ UNCHANGED <<clock, loaded, swPc, swList, swState, cleaned, removed, removedLive>>

-----------------------------------------------------------------------------
(* core/agent.py, models/schemas.py: the conversation history in a turn    *)

\* The longest history followed.
MaxHistory == 5

\* The inputs a user sends.
UserInputs == {"hi", "yes", ""}

\* A mutant of add_message: the entry is put in front.
add_message_front(history, role, content) ==
    << [role |-> role, content |-> content] >> \o history

\* SessionState.add_message: conversation_history.append({role, content, ..}).
add_message(history, role, content) ==
    Append(history, [role |-> role, content |-> content])

\* The assistant messages _handle_user_response adds for a reply to a pending
\* question: choice accepted or not understood, permission granted or denied.
ResponseMessages == {"noted", "not understood", "permission granted", "permission denied"}

HistoryInit ==
    /\ conversation_history = << >>
    /\ hBefore = << >>
    /\ hInput = ""
    /\ hPc = "idle"

\* process_conversation up to the handling of a pending question: the user
\* message is added first.
ProcessConversation(user_input, pending) ==
    /\ hPc = "idle"
    /\ Len(conversation_history) < MaxHistory
    /\ hBefore' = conversation_history
    /\ hInput' = user_input
    /\ conversation_history' = add_message(conversation_history, "user", user_input)
    /\ hPc' = IF pending THEN "handle" ELSE "gemini"

\* _handle_user_response: the message for the reply is added; a reply that
\* was handled or not goes on to _process_with_gemini, an exception to the
\* except clause of process_conversation, which ends the turn.
HandleUserResponse(msg, raises) ==
    /\ hPc = "handle"
    /\ Len(conversation_history) < MaxHistory
    /\ conversation_history' = add_message(conversation_history, "assistant", msg)
    /\ hPc' = IF raises THEN "done" ELSE "gemini"
    /\ UNCHANGED <<hBefore, hInput>>

\* _process_with_gemini at the finish chunk: a non-blank accumulated
\* response is added; after a state change the function calls itself.
GeminiFinish(blank, again) ==
    /\ hPc = "gemini"
    /\ IF blank
       THEN UNCHANGED conversation_history
       ELSE /\ Len(conversation_history) < MaxHistory
            /\ conversation_history' =
                   add_message(conversation_history, "assistant", "response")
    /\ hPc' = IF again THEN "gemini" ELSE "done"
    /\ UNCHANGED <<hBefore, hInput>>

\* _process_with_gemini's except clause: the error response is added.
GeminiError ==
    /\ hPc = "gemini"
    /\ Len(conversation_history) < MaxHistory
    /\ conversation_history' =
           add_message(conversation_history, "assistant", "I encountered an error")
    /\ hPc' = "done"
    /\ UNCHANGED <<hBefore, hInput>>

\* process_conversation returns.
ProcessConversationReturn ==
    /\ hPc = "done"
    /\ hPc' = "idle"
    /\ UNCHANGED <<conversation_history, hBefore, hInput>>

-----------------------------------------------------------------------------
(* api/websockets.py: WebSocketManager                                     *)

\* The websockets accepted over the life of the manager, and the session ids
\* they connect to.  The ids hold no "_" and none is a prefix of another, so
\* that conn_id.startswith(session_id + "_") holds just for the connection
\* ids made for that session id, and connection_id.split("_")[0] is it.
MaxChannels == 4
ChannelSessions == {"s1", "s2"}

\* connection_id = f"{session_id}_{datetime.now().timestamp()}".
ConnectionId(session_id, stamp) == [session_id |-> session_id, stamp |-> stamp]

\* disconnect: "conn_id.startswith(f'{session_id}_') and (websocket is None
\* or conn_websocket == websocket)"; ws = 0 stands for None.
removes(conn, session_id, ws) ==
    conn.id.session_id = session_id /\ (ws = 0 \/ conn.websocket = ws)

ChannelInit ==
    /\ openChannels = {}
    /\ active_connections = {}
    /\ session_connections = [s \in ChannelSessions |-> << >>]
    /\ heartbeat_tasks = {}
    /\ accepted = 0

\* WebSocketManager.connect for a new websocket of session_id.
ChannelConnect(session_id) ==
    /\ accepted < MaxChannels
    /\ LET ws == accepted + 1
           connection_id == ConnectionId(session_id, ws)
       IN  /\ accepted' = ws
           /\ openChannels' = openChannels \cup {[websocket |-> ws, session_id |-> session_id]}
           /\ active_connections' =
                  active_connections \cup {[id |-> connection_id, websocket |-> ws]}
           /\ session_connections' =
                  [session_connections EXCEPT ![session_id] = Append(@, ws)]
           /\ heartbeat_tasks' = heartbeat_tasks \cup {connection_id}

\* WebSocketManager.disconnect(session_id, websocket): the connections found
\* are removed and their heartbeat tasks cancelled; the session's list is
\* filtered, or emptied when no websocket is given (a session without
\* entry in session_connections is one with an empty list).
Disconnect(session_id, ws) ==
    LET connections_to_remove == {c \in active_connections : removes(c, session_id, ws)}
    IN  /\ heartbeat_tasks' = heartbeat_tasks \ {c.id : c \in connections_to_remove}
        /\ active_connections' = active_connections \ connections_to_remove
        /\ session_connections' =
               [session_connections EXCEPT ![session_id] =
                    IF ws # 0 THEN SelectSeq(@, LAMBDA w : w # ws) ELSE << >>]

\* websocket_endpoint: the channel ch is closed by its client; receive_json
\* raises WebSocketDisconnect and the handler calls
\* manager.disconnect(session_id).
ChannelClose(ch) ==
    /\ ch \in openChannels
    /\ openChannels' = openChannels \ {ch}
    /\ Disconnect(ch.session_id, 0)
    /\ UNCHANGED accepted

\* _heartbeat_loop of channel ch: send_json raises; the loop calls
\* self.disconnect(session_id, websocket) and ends.
HeartbeatFails(ch) ==
    /\ ch \in openChannels
    /\ ConnectionId(ch.session_id, ch.websocket) \in heartbeat_tasks
    /\ openChannels' = openChannels \ {ch}
    /\ Disconnect(ch.session_id, ch.websocket)
    /\ UNCHANGED accepted

-----------------------------------------------------------------------------
(* gemini/streaming_client.py: GeminiChunkParser, as the agent uses it     *)

\* The sessions whose turns the one ConversationAgent of the application
\* processes, the turns followed per session and the longest text followed.
ParserSessions == {"s1", "s2"}
MaxTurns == 2
MaxTokens == 3

\* A text token: the session and the turn of the stream it came in.
Token(s, n) == [session |-> s, turn |-> n]

ParserInit ==
    /\ partial_content = << >>
    /\ streamed = [s \in ParserSessions |-> [turn |-> 0, accumulated |-> << >>]]
    /\ turnOf = [s \in ParserSessions |-> 0]
    /\ inTurn = [s \in ParserSessions |-> FALSE]

\* _process_with_gemini of a turn of session s starts to consume a stream;
\* the parser is self.chunk_parser, made once in ConversationAgent.__init__.
StreamBegin(s) ==
    /\ ~inTurn[s]
    /\ turnOf[s] < MaxTurns
    /\ turnOf' = [turnOf EXCEPT ![s] = @ + 1]
    /\ inTurn' = [inTurn EXCEPT ![s] = TRUE]
    /\ UNCHANGED <<partial_content, streamed>>

\* process_chunk on a text chunk of session s's stream:
\* self.partial_content += chunk.content, and the ai_message_chunk send with
\* "accumulated": self.partial_content.
TextChunk(s) ==
    /\ inTurn[s]
    /\ Len(partial_content) < MaxTokens
    /\ partial_content' = Append(partial_content, Token(s, turnOf[s]))
    /\ streamed' = [streamed EXCEPT ![s] =
                       [turn |-> turnOf[s], accumulated |-> partial_content']]
    /\ UNCHANGED <<turnOf, inTurn>>

\* process_chunk on the finish chunk of session s's stream: the parser state
\* is reset.
FinishChunk(s) ==
    /\ inTurn[s]
    /\ partial_content' = << >>
    /\ inTurn' = [inTurn EXCEPT ![s] = FALSE]
    /\ UNCHANGED <<streamed, turnOf>>

\* The turn of session s stops consuming its stream before a finish chunk:
\* the stream raises or ends, or a function result makes the turn return
\* (waiting_for_user, permission_requested).
StreamStops(s) ==
    /\ inTurn[s]
    /\ inTurn' = [inTurn EXCEPT ![s] = FALSE]
    /\ UNCHANGED <<partial_content, streamed, turnOf>>

\* ---------------------------------------------------------------------
\* The technology switch (gemini/function_registry.py,
\* fail_technology_and_switch and _try_technology_switch).
\* ---------------------------------------------------------------------

\* The runtimes a capability snapshot may list, and the package managers.
Runtimes == {"python", "node"}
PackageManagers == {"pip", "npm"}
OperatingSystems == {"Darwin", "Linux"}

\* The capability snapshots detect_all_capabilities can produce, reduced to
\* what the switch reads: the keys of available_runtimes (with python_version
\* and node_version folded in, function_registry.py 2985-3003), the package
\* managers, the operating system and whether Docker is installed.
NoCapabilities == [runtimes |-> {}, managers |-> {}, os |-> "None", docker |-> FALSE]

Snapshots ==
    [ runtimes : SUBSET Runtimes, managers : SUBSET PackageManagers,
      os : OperatingSystems, docker : BOOLEAN ]

\* runtime_pm_map of _get_runtime_package_manager, for the names above and
\* for "ruby"; "dart" is a language for which it lists no manager.
runtime_pm_map(runtime) ==
    CASE runtime = "node" -> <<"npm", "yarn", "pnpm">>
      [] runtime = "python" -> <<"pip", "poetry", "pipenv">>
      [] runtime = "ruby" -> <<"gem", "bundler">>
      [] OTHER -> <<>>

\* _get_runtime_package_manager: the first preferred manager that is
\* available, "package manager" when there is none.
get_runtime_package_manager(runtime, available_managers) ==
    LET preferred == runtime_pm_map(runtime)
        hits == { k \in 1..Len(preferred) : preferred[k] \in available_managers }
    IN  IF hits = {} THEN "package manager"
        ELSE preferred[CHOOSE k \in hits : \A j \in hits : k <= j]

\* stability_order of _get_capability_based_fallback.
stability_order ==
    <<"python", "node", "java", "go", "rust", "dart", "swift", "php", "ruby">>

\* The position of a runtime in stability_order (every runtime of the model
\* is listed there).
Stability(runtime) == CHOOSE k \in 1..Len(stability_order) : stability_order[k] = runtime

\* The framework name the fallback makes up, f"{runtime} application".
Application(runtime) ==
    CASE runtime = "python" -> "python application"
      [] runtime = "node" -> "node application"
      [] OTHER -> "other application"

NoFallback == [language |-> "None", framework |-> "None"]

\* _get_capability_based_fallback: of the runtimes that are not named in
\* failed_technology, have a compatible package manager and suit the
\* operating system, the first in stability_order; None when there is none.
\*   failed  the runtimes whose names occur in failed_technology.
get_capability_based_fallback(caps, failed) ==
    LET viable == { r \in caps.runtimes :
                      /\ r \notin failed
                      /\ get_runtime_package_manager(r, caps.managers) # "package manager"
                      /\ ~(r = "swift" /\ caps.os # "Darwin") }
    IN  IF viable = {} THEN NoFallback
        ELSE LET best == CHOOSE r \in viable :
                            \A q \in viable : Stability(r) <= Stability(q)
             IN  [language |-> best, framework |-> Application(best)]

\* The recommendations the model can give: none at all, text that is not
\* JSON, or a language, a framework and the tools it requires.
Languages == Runtimes \cup {"dart"}
Frameworks == {"Flask", "SwiftUI"}
ToolLists == { {}, {"npm"}, {"docker"} }
Recommendations ==
    { [kind |-> "no_candidates"], [kind |-> "unparsable"] } \cup
    [ kind : {"parsed"}, language : Languages, framework : Frameworks,
      required_tools : ToolLists ]

\* "iOS" in framework or "Swift" in framework.
NeedsMacOS(framework) == framework = "SwiftUI"

\* A required tool is available: a runtime, a package manager, or Docker
\* when it is installed (git is not among the tools of the model).
tool_available(tool, caps) ==
    \/ tool \in caps.runtimes
    \/ tool \in caps.managers
    \/ tool = "docker" /\ caps.docker

validate_ai_recommendation_any(rec, caps) == TRUE
\* _validate_ai_recommendation: the language is an available runtime with a
\* compatible package manager, the framework suits the operating system and
\* no required tool is missing.
validate_ai_recommendation(rec, caps) ==
    /\ rec.language \in caps.runtimes
    /\ get_runtime_package_manager(rec.language, caps.managers) # "package manager"
    /\ ~(NeedsMacOS(rec.framework) /\ caps.os # "Darwin")
    /\ \A tool \in rec.required_tools : tool_available(tool, caps)

\* _reset_execution_state.
reset_execution_state(session) ==
    [session EXCEPT !.execution_results = 0,
                    !.execution_plan = "None",
                    !.should_regenerate_steps = TRUE]

NoCall == [status |-> "none"]

\* A call that returned switch_failed.
FailedCall == [status |-> "switch_failed"]

\* A returned call: its inputs, the snapshot it used and what it returned.
Call(status, failed, rec, language, framework) ==
    [status |-> status, failed |-> failed, rec |-> rec,
     new_language |-> language, new_framework |-> framework]

\* What the handler fail_technology_and_switch does to the session and what
\* it returns (function_registry.py 2939-3211), given the snapshot caps.
\*   fault  "none", or where an exception is raised: "early" (before the
\*          recommendation is handled) or "send" (the technology_switched
\*          message cannot be sent, 3149-3160); both end in the handler's
\*          except clause, which returns switch_failed.
fail_technology_and_switch(session, caps, failed, rec, fault) ==
    LET fallback_result == get_capability_based_fallback(caps, failed)
        failedRet == [session |-> session, ret |-> FailedCall]
        switchTo(s, language, framework) ==
            LET written == [s EXCEPT !.language = language, !.framework = framework]
            IN  IF fault = "send"
                THEN [session |-> written, ret |-> FailedCall]
                ELSE [session |-> written,
                      ret |-> Call("technology_switched", failed, rec,
                                   language, framework)]
    IN  IF fault = "early" \/ rec.kind = "no_candidates" THEN failedRet
        ELSE IF rec.kind = "unparsable"
        THEN \* json.JSONDecodeError (3171-3198)
             IF fallback_result = NoFallback THEN failedRet
             ELSE [session |-> [session EXCEPT !.language = fallback_result.language,
                                               !.framework = fallback_result.framework],
                   ret |-> Call("technology_switched", failed, rec,
                                fallback_result.language, fallback_result.framework)]
        ELSE IF validate_ai_recommendation(rec, caps)
        THEN switchTo(reset_execution_state(session), rec.language, rec.framework)
        ELSE IF fallback_result = NoFallback THEN failedRet
        ELSE switchTo(reset_execution_state(session),
                      fallback_result.language, fallback_result.framework)

\* A new session: no capabilities yet, default requirements, no results, no
\* plan (models/schemas.py 183-198).
SwitchInit ==
    /\ capabilities = NoCapabilities
    /\ swSession = [language |-> "None", framework |-> "None",
                    execution_results |-> 0, execution_plan |-> "None",
                    should_regenerate_steps |-> FALSE]
    /\ swCall = NoCall

\* The snapshot the handler works with: the session's, or a newly detected
\* one when the session has none (2964-2968).
SnapshotFor(detected) == IF capabilities = NoCapabilities THEN detected ELSE capabilities

\* The model calls fail_technology_and_switch through the registry.
FailTechnologyAndSwitch(failed, rec, detected, fault) ==
    LET caps == SnapshotFor(detected)
        out == fail_technology_and_switch(swSession, caps, failed, rec, fault)
    IN  /\ capabilities' = caps
        /\ swSession' = out.session
        /\ swCall' = out.ret

\* _try_technology_switch: the same call made by the step loop, which sets
\* should_regenerate_steps when the switch is reported (3301-3325).
TryTechnologySwitch(failed, rec, detected, fault) ==
    LET caps == SnapshotFor(detected)
        out == fail_technology_and_switch(swSession, caps, failed, rec, fault)
    IN  /\ capabilities' = caps
        /\ swSession' =
             IF out.ret.status = "technology_switched"
             THEN [out.session EXCEPT !.should_regenerate_steps = TRUE]
             ELSE out.session
        /\ swCall' = out.ret

\* generate_execution_plan stores a plan in the session (756-761).
GenerateExecutionPlan ==
    /\ swSession' = [swSession EXCEPT !.execution_plan = "plan"]
    /\ swCall' = NoCall
    /\ UNCHANGED capabilities

\* execute_plan stores the results of the session's plan (1555-1567).
StoreExecutionResults ==
    /\ swSession.execution_plan # "None"
    /\ swSession' = [swSession EXCEPT !.execution_results = 1]
    /\ swCall' = NoCall
    /\ UNCHANGED capabilities

\* create_project_with_steps finds the flag set and clears it (808-822).
ClearRegenerateFlag ==
    /\ swSession.should_regenerate_steps
    /\ swSession' = [swSession EXCEPT !.should_regenerate_steps = FALSE]
    /\ swCall' = NoCall
    /\ UNCHANGED capabilities

\* ---------------------------------------------------------------------
\* The action-result log session_state.function_results
\* (gemini/function_registry.py, execute; core/agent.py, _process_with_gemini).
\* ---------------------------------------------------------------------

\* "if len(session_state.function_results) > 10" (core/agent.py 832).
max_function_results == 10

\* The log is followed up to this length.
MaxLog == 13

\* How one action invocation of a stream ends:
\*   ran          the handler ran and the loop goes on;
\*   ran_waiting  the handler ran and returned waiting_for_user or
\*                permission_requested, on which the loop breaks (612-632);
\*   not_run      execute returned without running the handler (unknown name,
\*                blocked by the state machine) or the handler raised.
DispatchEnds == {"ran", "ran_waiting", "not_run"}

\* FunctionRegistry.execute appends an entry after the handler returned
\* (function_registry.py 117-126).
execute_appends(log, end) ==
    IF end \in {"ran", "ran_waiting"} THEN Append(log, "execute") ELSE log

\* _process_with_gemini appends its own entry and then drops the first one
\* when the list is longer than 10 (core/agent.py 822-833); neither happens
\* when the loop has been left by break.
agent_appends(log, end) ==
    IF end = "ran_waiting" THEN log
    ELSE LET appended == Append(log, "agent")
         IN  IF Len(appended) > max_function_results THEN Tail(appended)
             ELSE appended

LogInit == function_results = <<>>

\* One function_call chunk of a stream, from execute to the end of the
\* loop body.
DispatchLogged(end) ==
    /\ Len(function_results) < MaxLog
    /\ function_results' = agent_appends(execute_appends(function_results, end), end)

\* The components followed by the further specifications, at rest.
ExtInit ==
    /\ invocations = 0
    /\ ProjectInit
    /\ MatchRest
    /\ EngineInit
    /\ SaveFaultInit
    /\ ExpiryInit
    /\ HistoryInit
    /\ ChannelInit
    /\ blocking_seen = FALSE
    /\ ParserInit
    /\ SwitchInit
    /\ LogInit

Init == TurnInit /\ StoreInit /\ ExtInit

Next ==
    \/ \E reply \in {"good", "bad"}, expired \in BOOLEAN, env \in {"ok", "raises"},
          f \in {"none", "first", "processed"} :
          UserTurn(reply, expired, env, f) /\ StoreIdle
    \/ \E call \in Calls : \E env \in CallEnvs(call) :
          \E env2 \in CallEnvs2(call, env), extracted \in CallExtractions(call),
             f \in SendPoints :
             ChunkCall(call, env, env2, extracted, f) /\ StoreIdle
    \/ \E f \in {"none", "before", "after"} : ChunkFinish(f) /\ StoreIdle
    \/ StreamRaises /\ StoreIdle
    \/ StreamEnds /\ StoreIdle
    \/ \E handled \in BOOLEAN : GeminiExcept(handled) /\ StoreIdle
    \/ \E ef \in BOOLEAN : TurnExcept(ef) /\ StoreIdle
    \/ TurnEnd /\ StoreIdle

Spec == Init /\ [][Next]_vars

-----------------------------------------------------------------------------
(* SpecStore: concurrent tasks on the store of one session id              *)

TurnIdle == UNCHANGED <<turnVars, extVars>>

NextStore ==
    \/ \E t \in Tasks, op \in {"turn", "connect", "checkpoint", "restore"} :
          Begin(t, op) /\ TurnIdle
    \/ \E t \in Tasks : DeleteSession(t) /\ TurnIdle
    \/ CorruptFile /\ TurnIdle
    \/ \E t \in Tasks : Acquire(t) /\ TurnIdle
    \/ \E t \in Tasks : LoadRead(t) /\ TurnIdle
    \/ \E t \in Tasks : Mutate(t) /\ TurnIdle
    \/ \E t \in Tasks : CheckpointWrite(t) /\ TurnIdle
    \/ \E t \in Tasks : SaveWrite(t) /\ TurnIdle
    \/ \E t \in Tasks : SaveRename(t) /\ TurnIdle
    \/ \E t \in Tasks : Resave(t) /\ TurnIdle

SpecStore == Init /\ [][NextStore]_vars

\* SpecTurns: the tasks only run turns of the channel handler on the id.
NextTurns ==
    \/ \E t \in Tasks : Begin(t, "turn") /\ TurnIdle
    \/ \E t \in Tasks : Acquire(t) /\ TurnIdle
    \/ \E t \in Tasks : LoadRead(t) /\ TurnIdle
    \/ \E t \in Tasks : Mutate(t) /\ TurnIdle
    \/ \E t \in Tasks : SaveWrite(t) /\ TurnIdle
    \/ \E t \in Tasks : SaveRename(t) /\ TurnIdle

SpecTurns == Init /\ [][NextTurns]_vars

\* SpecSave: the store with saves that fail in the write or in the rename.
SaveIdle == UNCHANGED <<turnVars, iterVars, projVars, matchVars, engVars, expVars, histVars, chanVars, advVars, parseVars, switchVars, logVars>>

NextSave ==
    \/ NextStore
    \/ \E t \in Tasks, left \in WriteLeaves : SaveWriteFails(t, left) /\ SaveIdle
    \/ \E t \in Tasks : SaveRenameFails(t) /\ SaveIdle

SpecSave == Init /\ [][NextSave]_vars

-----------------------------------------------------------------------------
(* SpecIter: the turns of Spec with the invocations of a turn counted      *)

\* settings.MAX_ITERATIONS as ConversationAgent.__init__ stores it in
\* self.max_iterations: a deployment setting (environment variable
\* MAX_ITERATIONS, 50 when unset), here configured small.
max_iterations == 3

\* _process_with_gemini is entered once by process_conversation and once
\* more by every finish chunk that changed the state (agent.py 903-905).
\* Nothing in the turn reads self.max_iterations.
CountInvocation ==
    invocations' =
        IF pc = "idle" THEN (IF pc' = "streaming" THEN 1 ELSE 0)
        ELSE IF ev'.op = "finish" /\ pc' = "streaming" THEN invocations + 1
        ELSE invocations

IterIdle == UNCHANGED <<storeVars, projVars, matchVars, engVars, faultVars, expVars, histVars, chanVars, advVars, parseVars, switchVars, logVars>>

\* The model follows a stream no further once the turn has exceeded the cap.
IterBound == invocations <= max_iterations

NextIter ==
    \/ \E reply \in {"good", "bad"}, expired \in BOOLEAN, env \in {"ok", "raises"},
          f \in {"none", "first", "processed"} :
          UserTurn(reply, expired, env, f) /\ CountInvocation /\ IterIdle
    \/ \E call \in Calls : \E env \in CallEnvs(call) :
          \E env2 \in CallEnvs2(call, env), extracted \in CallExtractions(call),
             f \in SendPoints :
             /\ IterBound
             /\ ChunkCall(call, env, env2, extracted, f) /\ CountInvocation /\ IterIdle
    \/ \E f \in {"none", "before", "after"} :
          IterBound /\ ChunkFinish(f) /\ CountInvocation /\ IterIdle
    \/ StreamRaises /\ CountInvocation /\ IterIdle
    \/ StreamEnds /\ CountInvocation /\ IterIdle
    \/ \E handled \in BOOLEAN : GeminiExcept(handled) /\ CountInvocation /\ IterIdle
    \/ \E ef \in BOOLEAN : TurnExcept(ef) /\ CountInvocation /\ IterIdle
    \/ TurnEnd /\ invocations' = 0 /\ IterIdle

SpecIter == Init /\ [][NextIter]_vars

\* C11 (SpecIter): within one orchestrator turn the reasoning capability is
\* invoked at most max_iterations times (the configured iteration cap),
\* whatever the capability streams.
C11_TurnBoundedByIterationCap ==
    invocations <= max_iterations

-----------------------------------------------------------------------------
(* SpecProject: executions of create_project_with_steps on one session     *)

ProjectIdle == UNCHANGED <<turnVars, storeVars, iterVars, matchVars, engVars, faultVars, expVars, histVars, chanVars, advVars, parseVars, switchVars, logVars>>

NextProject ==
    \/ \E n \in 0..MaxSteps, regen \in Regenerations, setup \in {"ok", "raises"} :
          CreateProjectEntry(n, regen, setup) /\ ProjectIdle
    \/ \E o \in StepOutcomes, sw \in SwitchOutcomes, regen \in Regenerations :
          CreateProjectStep(o, sw, regen) /\ ProjectIdle
    \/ CreateProjectReport /\ ProjectIdle
    \/ CreateProjectReturn /\ ProjectIdle

SpecProject == Init /\ [][NextProject]_vars

\* C12 (SpecProject): during one plan execution the step list is regenerated
\* at most MaxRegenerations (5) times, and an execution whose regeneration
\* counter reached the cap does not return a completed status.
C12_RegenerationCapEndsInFailure ==
    /\ regenerated <= MaxRegenerations
    /\ (cpsPc = "done" /\ attempts = MaxRegenerations)
          => cpsRet.status # "execution_completed"

\* C13 (SpecProject): when a shell step exited non-zero and every recovery
\* stage failed (no working alternative command, no technology switch), the
\* execution is never reported as a completed execution in which every step,
\* that one included, counts as successful.
C13_UnrecoveredStepEndsInFailure ==
    (cpsPc = "done" /\ unrecovered)
        => ~(cpsRet.status = "execution_completed"
             /\ cpsRet.successful_steps = steps_len)

-----------------------------------------------------------------------------
(* SpecMatch: one reply to one pending question                            *)

MatchIdle == UNCHANGED <<turnVars, storeVars, iterVars, projVars, engVars, faultVars, expVars, histVars, chanVars, advVars, parseVars, switchVars, logVars>>

InitMatch ==
    /\ TurnInit /\ StoreInit
    /\ invocations = 0
    /\ ProjectInit
    /\ MatchInit
    /\ EngineInit
    /\ SaveFaultInit
    /\ ExpiryInit
    /\ HistoryInit
    /\ ChannelInit
    /\ blocking_seen = FALSE
    /\ ParserInit
    /\ SwitchInit
    /\ LogInit

NextMatch ==
    \/ \E f \in {"none", "first", "processed"} : HandleReply(f) /\ MatchIdle

SpecMatch == InitMatch /\ [][NextMatch]_vars

\* The turn has handled the reply to a choice question.
ChoiceHandled == mPos \in {"gemini", "except"} /\ mAsked.type = "choice"

\* The options of the question asked that the reply r matches: ignoring
\* case, r equals the option or is a substring of it.
OptionsMatching(r) ==
    {k \in 1..Len(mAsked.options) :
        \/ lower(r) = lower(mAsked.options[k])
        \/ contains(lower(r), lower(mAsked.options[k]))}

FirstOf(S) == CHOOSE k \in S : \A j \in S : k <= j

\* C15 as stated (SpecMatch): the reply matches an option exactly when,
\* ignoring case, it equals the option or is a substring of it; on a match
\* the question is cleared and the target field holds the matched option.
C15_MatchIgnoringCase ==
    ChoiceHandled =>
        LET hits == OptionsMatching(mReply)
        IN  /\ (hits # {}) <=> (mQuestion = NoQuestion)
            /\ (hits # {} /\ mAsked.field \in RequirementFields)
                  => mReq[mAsked.field] = Text(mAsked.options[FirstOf(hits)])

\* C15 amended (SpecMatch): the reply is compared ignoring case and its
\* leading and trailing whitespace; the first matching option in list order
\* is selected; on a match the question is cleared and the target field, when
\* the requirements have it, holds the matched option, for project_type the
\* project type the option maps to; without a match nothing changes.
C15_MatchIgnoringCaseAndPadding ==
    ChoiceHandled =>
        LET hits == OptionsMatching(strip(mReply))
            none == [f \in RequirementFields |-> NoValue]
        IN  IF hits = {}
            THEN mQuestion = mAsked /\ mWaiting /\ mReq = none
            ELSE /\ mQuestion = NoQuestion
                 /\ mReq =
                      IF mAsked.field = "project_type"
                      THEN [none EXCEPT !["project_type"] =
                              Member(map_project_type_string(
                                         mAsked.options[FirstOf(hits)]))]
                      ELSE IF mAsked.field \in RequirementFields
                      THEN [none EXCEPT ![mAsked.field] =
                              Text(mAsked.options[FirstOf(hits)])]
                      ELSE none

\* Options [sqlite, postgresql] answered "Postgres": database is
\* "postgresql" and the question is cleared.
C15_Witness ==
    /\ ChoiceHandled
    /\ mAsked.field = "database"
    /\ mAsked.options = << << "s", "q", "l", "i", "t", "e" >>,
                           << "p", "o", "s", "t", "g", "r", "e", "s", "q", "l" >> >>
    /\ mReply = << "P", "o", "s", "t", "g", "r", "e", "s" >>
    /\ mReq["database"] = Text(<< "p", "o", "s", "t", "g", "r", "e", "s", "q", "l" >>)
    /\ mQuestion = NoQuestion

\* C16 (SpecMatch): for a pending permission question a granted permission is
\* recorded if and only if the reply is one of the affirmative tokens, and
\* whether granted or denied the question and the waiting flag are cleared
\* when the turn has handled the reply.
C16_PermissionReplyClearsQuestion ==
    (mPos \in {"gemini", "except"} /\ mAsked.type = "permission")
        => /\ mGranted <=> (strip(lower(mReply)) \in AffirmativeTokens)
           /\ mQuestion = NoQuestion
           /\ ~mWaiting

-----------------------------------------------------------------------------
(* Claims checked under Spec                                               *)

Terminal == {"ERROR", "ABORTED"}

\* C1: after every orchestrator turn (process_conversation has returned, on
\* whatever path), the waiting flag is true if and only if the pending
\* question is present.
C1_WaitingIffPendingAfterTurn ==
    pc = "returned" => (ss.waiting_for_user <=> ss.pending_question # "None")

\* C6: once current_state is ERROR or ABORTED, no step of a turn (an action
\* dispatch, the end-of-stream auto_transition) changes current_state.
C6_TerminalStatesAreNotLeft ==
    [][ (ss.current_state \in Terminal /\ ev'.op \in {"dispatch", "finish"})
          => ss'.current_state = ss.current_state ]_vars

\* C7: current_state becomes ABORTED only by an explicit request; a step in
\* which auto_transition ran (at end of stream or inside a handler) never
\* moves the session to ABORTED.
C7_AutoTransitionNeverAborts ==
    [][ (ss'.current_state = "ABORTED" /\ ss.current_state # "ABORTED")
          => ~ev'.auto.called ]_vars

\* C8: when a non-empty plan exists, auto_transition moves the session into
\* COMPLETED only if the session has been in EXECUTING and, after that, in
\* VERIFYING.
C8_CompletedOnlyAfterExecutingAndVerifying ==
    ( /\ ev.auto.called
      /\ ev.auto.ret = "COMPLETED"
      /\ ss.execution_plan.present
      /\ ss.execution_plan.steps > 0 )
    => (trail.executing /\ trail.verifying_after)

\* The session auto_transition was called with in the step being taken: the
\* session itself at end of stream, and inside
\* validate_requirements_against_capabilities the session with the
\* validation flag just set.
AutoInput ==
    IF ev'.op = "finish" THEN ss ELSE [ss EXCEPT !.validation_completed = TRUE]

\* C9: auto_transition considers the transitions whose source is the current
\* state, in registration order, applies the first whose guard holds and
\* returns its target; when no guard holds it returns none and leaves
\* current_state unchanged.
C9_AutoTransitionTakesFirstValid ==
    [][ ev'.auto.called =>
          LET b == AutoInput
              ok == { i \in 1..Len(Transitions) :
                        /\ Transitions[i].from_state = b.current_state
                        /\ Condition(Transitions[i].condition, b) }
          IN  IF ok = {}
              THEN /\ ev'.auto.ret = "None"
                   /\ ss'.current_state = b.current_state
              ELSE LET first == CHOOSE i \in ok : \A j \in ok : i <= j
                   IN  /\ ev'.auto.ret = Transitions[first].to_state
                       /\ ss'.current_state = Transitions[first].to_state ]_vars

\* C9 witness: auto_transition ran in VERIFYING with the error flag set,
\* where three registered transitions are valid (to COMPLETED, to ERROR, to
\* ABORTED), and took the first.
C9_Witness ==
    /\ ev.auto.called
    /\ ev.auto.ret = "COMPLETED"
    /\ ss.current_state = "COMPLETED"
    /\ ss.error_message # "None"

\* The source keeps two allow-lists for a state: the one reported with a
\* rejection and the "allowed_functions" beside the blocked set.  An action
\* is off the allow-list when neither names it.
OffAllowList(name, s) ==
    /\ name \notin get_allowed_functions_for_state(s.current_state)
    /\ name \notin AllowedFunctions(s)

\* C10: in every state, a dispatched action that is not on the allow-list of
\* the current state is rejected with status blocked_by_state_machine and
\* its handler is not executed.
C10_ActionsOffTheAllowListAreBlocked ==
    [][ (ev'.op = "dispatch" /\ OffAllowList(ev'.dispatches[1].name, ss))
          => /\ ev'.dispatches[1].status = "blocked_by_state_machine"
             /\ ~ev'.dispatches[1].ran ]_vars

\* C26: a dispatch of an action that the state gate rejects in the state the
\* session is in leaves the session's requirements and current state as
\* they were (no recovery has run before the rejection).
C26_StateGatePrecedesRecovery ==
    [][ (/\ ev'.op = "dispatch"
         /\ ev'.dispatches[1].name \in Registered
         /\ validate_function_for_state(ev'.dispatches[1].name, ss))
          => /\ ss'.requirements = ss.requirements
             /\ ss'.current_state = ss.current_state ]_vars

\* C14: when a pending choice question receives a reply that matches no
\* option (the question is still pending after _handle_user_response), the
\* turn stops there: the question, the waiting flag and the requirements are
\* as they were and the reasoning capability is not invoked.
C14_NoMatchRepromptsAndStops ==
    [][ (/\ pc = "idle"
         /\ ss.pending_question = "choice_project_type"
         /\ ss'.pending_question = ss.pending_question
         /\ pc' # "turn_except")
          => /\ pc' # "streaming"
             /\ ss'.waiting_for_user = ss.waiting_for_user
             /\ ss'.requirements = ss.requirements ]_vars

\* C17: an exception raised during a turn (pc is "gemini_except" or
\* "turn_except" while it is handled) is not propagated to the caller of
\* the turn, and the turn that returns after it has set the session's error
\* flag.
C17_ExceptionSetsErrorFlag ==
    [][ (pc \in {"gemini_except", "turn_except"})
          => (/\ pc' # "raised"
              /\ (pc' = "returned" => ss'.error_message # "None")) ]_vars

-----------------------------------------------------------------------------
(* Claims checked under SpecTurns and SpecStore                            *)

\* C2 (SpecTurns): turns on the session id that overlap are serialized as
\* whole load-mutate-save cycles, so the persisted document holds the input
\* of every turn that has been saved: no update is lost.
C2_NoTurnIsLost ==
    disk.kind = "doc" => saved \subseteq disk.history

\* The write-temp-file-then-rename section of save_state.
InWriteSection(t) == task[t].pc \in {"save_write", "save_rename"}

\* C3: at most one task at a time is inside the write-temp-then-rename
\* section of save for the session id, whichever component's store it
\* saves through.
C3_OneWriterAtATime ==
    Cardinality({ t \in Tasks : InWriteSection(t) }) <= 1

\* C4: every successful write (a rename of the temp file onto the session
\* file) over a document stores a version strictly greater than the version
\* of the document it replaces.
C4_VersionStrictlyIncreases ==
    [][ (tmp.kind = "doc" /\ tmp'.kind = "absent" /\ disk.kind = "doc")
          => disk'.version > disk.version ]_vars

\* C5: load_state on a corrupt session file terminates with a fresh session:
\* the loading task never comes to wait for a lock that it holds itself (a
\* wait that cannot end).
C5_CorruptLoadDoesNotBlock ==
    \A t \in Tasks :
        (disk.kind = "corrupt" /\ task[t].pc = "save_wait")
            => task[t].lock # task[t].outer

\* C18 (SpecStore): a new channel connection for a session id that has a
\* persisted session leaves that session as it is: the save of
\* start_new_session loses no message of the persisted conversation history.
C18_ReconnectKeepsSession ==
    [][ \A t \in Tasks :
          (/\ task[t].op \in {"connect", "connected"}
           /\ task[t].pc = "save_rename"
           /\ task'[t].pc # "save_rename"
           /\ disk.kind = "doc")
             => disk.history \subseteq disk'.history ]_vars

-----------------------------------------------------------------------------
(* SpecEngine: execute_plan run on plans of up to MaxPlan steps, each with *)
(* or without a fallback command, every command ending in every way.       *)

EngineIdle == UNCHANGED <<turnVars, storeVars, iterVars, projVars, matchVars, faultVars, expVars, histVars, chanVars, advVars, parseVars, switchVars, logVars>>

NextEngine ==
    \/ \E plan \in Plans, ws \in BOOLEAN : ExecutePlanEntry(plan, ws) /\ EngineIdle
    \/ \E end \in CommandEnds, lost \in SendLosses :
           ExecuteStepPrimary(end, lost) /\ EngineIdle
    \/ \E end \in CommandEnds, lost \in SendLosses :
           ExecuteStepFallback(end, lost) /\ EngineIdle
    \/ ExecutePlanReturn /\ EngineIdle
    \/ ExecutePlanCaller /\ EngineIdle

SpecEngine == Init /\ [][NextEngine]_vars

\* The step of the plan that entry p of results belongs to.
StepOf(p) == execution_plan[engResults[p].step_index + 1]

\* Entry p of results is a failure that nothing recovers: a failed command of
\* a step without fallback, or a failed fallback command.
Unrecovered(p) ==
    /\ ~engResults[p].success
    /\ \/ engResults[p].command = "fallback_command"
       \/ ~StepOf(p).fallback_command

\* The commands of the plan's steps in list order, each fallback command
\* right after its step's command: what results may be a prefix of.
InListOrder ==
    \A p \in 1..Len(engResults) :
        /\ p = 1 => engResults[p].step_index = 0 /\ engResults[p].command = "command"
        /\ p > 1 =>
             \/ /\ engResults[p].command = "command"
                /\ engResults[p].step_index = engResults[p - 1].step_index + 1
             \/ /\ engResults[p].command = "fallback_command"
                /\ engResults[p - 1].command = "command"
                /\ engResults[p].step_index = engResults[p - 1].step_index

\* C19 (SpecEngine): execute_plan runs the steps in list order and stops at
\* the first step that fails without a fallback or whose fallback fails too:
\* that failed result is the last entry of results and no command is run
\* after it; a 3-step plan whose step 2 fails with no fallback (step 1 having
\* succeeded) returns exactly 2 results, the second with success = false.
C19_StopsAtFirstUnrecoveredFailure ==
    /\ InListOrder
    /\ \A p \in 1..Len(engResults) :
           Unrecovered(p) => (p = Len(engResults) /\ Len(engRan) = p)
    /\ engPc = "returned" =>
           /\ Len(engRan) = Len(engResults)
           /\ \A p \in 1..Len(engResults) :
                  /\ engRan[p].step_index = engResults[p].step_index
                  /\ engRan[p].command = engResults[p].command
           /\ (/\ Len(execution_plan) = 3
               /\ ~execution_plan[2].fallback_command
               /\ Len(engRan) >= 2
               /\ engRan[1].end = "exit_zero"
               /\ engRan[2].end # "exit_zero")
                  => (Len(engResults) = 2 /\ ~engResults[2].success)

\* A 3-step plan has returned after its step 2 failed with no fallback.
C19_Witness ==
    /\ engPc = "returned"
    /\ Len(execution_plan) = 3
    /\ ~execution_plan[2].fallback_command
    /\ Len(engRan) = 2
    /\ engRan[1].end = "exit_zero"
    /\ engRan[2].end = "exit_nonzero"

\* Call p of execute_step ran a fallback command, which succeeded.
FallbackSucceeded(p) ==
    /\ p \in 1..Len(engRan)
    /\ engRan[p].command = "fallback_command"
    /\ engRan[p].end = "exit_zero"

\* C20 (SpecEngine): when a step's command fails and its fallback command
\* succeeds, results holds both attempts, the failed one and right after it
\* the fallback's with success = true and fallback_used = true, and the plan
\* goes on with the next step, if there is one.
C20_FallbackRecordedAndContinues ==
    \A p \in 1..Len(engResults) :
        FallbackSucceeded(p) =>
            /\ p > 1
            /\ engResults[p - 1].step_index = engRan[p].step_index
            /\ engResults[p - 1].command = "command"
            /\ ~engResults[p - 1].success
            /\ engResults[p].step_index = engRan[p].step_index
            /\ engResults[p].command = "fallback_command"
            /\ engResults[p].success
            /\ engResults[p].fallback_used
            /\ (engPc = "returned" /\ engRan[p].step_index + 1 < Len(execution_plan))
                   => /\ Len(engRan) > p
                      /\ engRan[p + 1].step_index = engRan[p].step_index + 1
                      /\ engRan[p + 1].command = "command"

\* A plan has returned in which a fallback command succeeded after its
\* step's command failed, and the next step was run.
C20_Witness ==
    /\ engPc = "returned"
    /\ \E p \in 1..Len(engResults) :
           /\ FallbackSucceeded(p)
           /\ Len(engRan) > p

-----------------------------------------------------------------------------
(* Claims checked under SpecSave                                           *)

\* The step is task t's save_state raising: a write or rename that failed,
\* or a rename that found no temp file.
SaveRaises(t) ==
    /\ task[t].pc \in {"save_write", "save_rename"}
    /\ task'[t].pc = "idle"
    /\ \/ save_errors' # save_errors
       \/ task[t].pc = "save_rename" /\ tmp.kind = "absent"

\* C21 (SpecSave): when the write of the temp file or the rename fails during
\* a save, the temp file is gone afterwards, the error leaves the operation
\* (the task does not go on and holds no lock) and the session file is what
\* it was before, the last content saved.
C21_FailedSaveLeavesLastGoodFile ==
    [][ \A t \in Tasks :
          SaveRaises(t) =>
              /\ tmp'.kind = "absent"
              /\ disk' = disk
              /\ task'[t] = IdleTask
              /\ task[t].lock \notin held' ]_vars

\* A save has failed while the session file held a saved conversation; the
\* file still holds it and there is no temp file.
C21_Witness ==
    /\ save_errors > 0
    /\ disk.kind = "doc"
    /\ disk.history # {}
    /\ tmp.kind = "absent"
    /\ \A t \in Tasks : task[t].pc = "idle"

-----------------------------------------------------------------------------
(* SpecExpiry: sessions saved, loaded and deleted while time passes and     *)
(* cleanup_expired_sessions runs.                                          *)

ExpiryIdle == UNCHANGED <<turnVars, storeVars, iterVars, projVars, matchVars, engVars, faultVars, histVars, chanVars, advVars, parseVars, switchVars, logVars>>

NextExpiry ==
    \/ Tick /\ ExpiryIdle
    \/ \E s \in Sessions, st \in {"INIT", "ASK_PROJECT_TYPE"} :
           SaveSession(s, st) /\ ExpiryIdle
    \/ \E s \in Sessions : LoadState(s) /\ ExpiryIdle
    \/ \E s \in Sessions : DeleteStored(s) /\ ExpiryIdle
    \/ CleanupEntry /\ ExpiryIdle
    \/ CleanupLoad /\ ExpiryIdle
    \/ CleanupCheck /\ ExpiryIdle
    \/ CleanupReturn /\ ExpiryIdle
    \/ CleanupCaller /\ ExpiryIdle

SpecExpiry == Init /\ [][NextExpiry]_vars

\* C22 (SpecExpiry): a load_state of a session whose last update is older
\* than the timeout returns, without raising, a session in state ERROR whose
\* error message reports the expiry.
C22_ExpiredLoadReturnsErrorSession ==
    loaded.old =>
        /\ ~loaded.raised
        /\ loaded.session.current_state = "ERROR"
        /\ loaded.session.error_message = "Session expired"

\* A session saved in ASK_PROJECT_TYPE has been loaded past the timeout.
C22_Witness ==
    /\ loaded.old
    /\ files[loaded.id].exists
    /\ files[loaded.id].current_state = "ASK_PROJECT_TYPE"
    /\ clock > files[loaded.id].updated_at + session_timeout

\* C25 (SpecExpiry): cleanup_expired_sessions removes a session file only if
\* the session is expired when it is removed, and the count it returns is
\* the number of session files it removed.
C25_SweepDeletesOnlyExpired ==
    /\ ~removedLive
    /\ swPc = "done" => cleaned = removed

-----------------------------------------------------------------------------
(* SpecHistory: turns of process_conversation, by what they do to the      *)
(* conversation history.                                                   *)

HistoryIdle == UNCHANGED <<turnVars, storeVars, iterVars, projVars, matchVars, engVars, faultVars, expVars, chanVars, advVars, parseVars, switchVars, logVars>>

NextHistory ==
    \/ \E user_input \in UserInputs, pending \in BOOLEAN :
           ProcessConversation(user_input, pending) /\ HistoryIdle
    \/ \E msg \in ResponseMessages, raises \in BOOLEAN :
           HandleUserResponse(msg, raises) /\ HistoryIdle
    \/ \E blank \in BOOLEAN, again \in BOOLEAN : GeminiFinish(blank, again) /\ HistoryIdle
    \/ GeminiError /\ HistoryIdle
    \/ ProcessConversationReturn /\ HistoryIdle

SpecHistory == Init /\ [][NextHistory]_vars

\* C23 (SpecHistory): during and after a turn, the entries the history had
\* before the turn are still there, unchanged and at the same index, and the
\* first entry after them is the user's input of the turn.
C23_HistoryOnlyGrowsAtItsEnd ==
    hPc # "idle" =>
        /\ Len(conversation_history) > Len(hBefore)
        /\ SubSeq(conversation_history, 1, Len(hBefore)) = hBefore
        /\ conversation_history[Len(hBefore) + 1] = [role |-> "user", content |-> hInput]

\* A turn on a history that was not empty has ended after adding the user's
\* input and a response.
C23_Witness ==
    /\ hPc = "done"
    /\ Len(hBefore) >= 2
    /\ Len(conversation_history) >= Len(hBefore) + 2

-----------------------------------------------------------------------------
(* SpecChannels: websockets connecting to and disconnecting from the        *)
(* WebSocketManager.                                                       *)

ChannelIdle == UNCHANGED <<turnVars, storeVars, iterVars, projVars, matchVars, engVars, faultVars, expVars, histVars, advVars, parseVars, switchVars, logVars>>

NextChannels ==
    \/ \E s \in ChannelSessions : ChannelConnect(s) /\ ChannelIdle
    \/ \E ch \in openChannels : ChannelClose(ch) /\ ChannelIdle
    \/ \E ch \in openChannels : HeartbeatFails(ch) /\ ChannelIdle

SpecChannels == Init /\ [][NextChannels]_vars

\* The connections registered for channel ch.
ConnectionsOf(ch) == {c \in active_connections : c.websocket = ch.websocket}

\* C24 (SpecChannels): every open channel is registered, once, with its
\* keepalive task running, whatever other channels have been closed; and a
\* task runs for open channels only.
C24_OneKeepalivePerOpenChannel ==
    /\ \A ch \in openChannels :
           /\ Cardinality(ConnectionsOf(ch)) = 1
           /\ \A c \in ConnectionsOf(ch) : c.id \in heartbeat_tasks
           /\ \E k \in 1..Len(session_connections[ch.session_id]) :
                  session_connections[ch.session_id][k] = ch.websocket
    /\ Cardinality(heartbeat_tasks) = Cardinality(openChannels)

-----------------------------------------------------------------------------
(* SpecAdvance: the turns of Spec with the statuses of a turn's results     *)
(* followed.                                                               *)

\* A status that _should_advance_workflow does not list among its
\* advancement_statuses: a blocking one or an unknown one.
BlocksOrUnknown(status) == status \notin AdvancementStatuses

\* blocking_seen over a step of the turn: cleared between turns, set by a
\* dispatch one of whose results has such a status.
TrackBlocking ==
    blocking_seen' =
        IF pc' = "idle" THEN FALSE
        ELSE \/ (pc # "idle" /\ blocking_seen)
             \/ /\ ev'.op = "dispatch"
                /\ \E k \in 1..Len(ev'.dispatches) :
                       BlocksOrUnknown(ev'.dispatches[k].status)

AdvanceIdle == UNCHANGED <<storeVars, iterVars, projVars, matchVars, engVars, faultVars, expVars, histVars, chanVars, parseVars, switchVars, logVars>>

NextAdvance ==
    \/ \E reply \in {"good", "bad"}, expired \in BOOLEAN, env \in {"ok", "raises"},
          f \in {"none", "first", "processed"} :
          UserTurn(reply, expired, env, f) /\ TrackBlocking /\ AdvanceIdle
    \/ \E call \in Calls : \E env \in CallEnvs(call) :
          \E env2 \in CallEnvs2(call, env), extracted \in CallExtractions(call),
             f \in SendPoints :
             ChunkCall(call, env, env2, extracted, f) /\ TrackBlocking /\ AdvanceIdle
    \/ \E f \in {"none", "before", "after"} :
          ChunkFinish(f) /\ TrackBlocking /\ AdvanceIdle
    \/ StreamRaises /\ TrackBlocking /\ AdvanceIdle
    \/ StreamEnds /\ TrackBlocking /\ AdvanceIdle
    \/ \E handled \in BOOLEAN : GeminiExcept(handled) /\ TrackBlocking /\ AdvanceIdle
    \/ \E ef \in BOOLEAN : TurnExcept(ef) /\ TrackBlocking /\ AdvanceIdle
    \/ TurnEnd /\ TrackBlocking /\ AdvanceIdle

SpecAdvance == Init /\ [][NextAdvance]_vars

\* C27 (SpecAdvance): at the finish chunk, auto_transition is called only if
\* no result produced earlier in the turn had a blocking or unknown status.
C27_OneBlockingResultPreventsAdvance ==
    [][ (ev'.op = "finish" /\ ev'.auto.called) => ~blocking_seen ]_vars

-----------------------------------------------------------------------------
(* SpecParser: turns of several sessions streaming text through the        *)
(* agent's chunk parser.                                                   *)

ParserIdle == UNCHANGED <<turnVars, storeVars, iterVars, projVars, matchVars, engVars, faultVars, expVars, histVars, chanVars, advVars, switchVars, logVars>>

NextParser ==
    \/ \E s \in ParserSessions : StreamBegin(s) /\ ParserIdle
    \/ \E s \in ParserSessions : TextChunk(s) /\ ParserIdle
    \/ \E s \in ParserSessions : FinishChunk(s) /\ ParserIdle
    \/ \E s \in ParserSessions : StreamStops(s) /\ ParserIdle

SpecParser == Init /\ [][NextParser]_vars

\* C28 (SpecParser): the accumulated text streamed on a session's channel in
\* a turn holds only text tokens of that turn of that session.
C28_AccumulatedTextIsTheTurnsOwn ==
    \A s \in ParserSessions :
        \A k \in 1..Len(streamed[s].accumulated) :
            streamed[s].accumulated[k] = Token(s, streamed[s].turn)

\* ---------------------------------------------------------------------
\* Specification of the technology switch.
\* ---------------------------------------------------------------------

SwitchIdle == UNCHANGED <<turnVars, storeVars, iterVars, projVars, matchVars, engVars, faultVars, expVars, histVars, chanVars, advVars, parseVars, logVars>>

FailedTechnologies == { {}, {"python"}, {"python", "node"} }
SwitchFaults == {"none", "early", "send"}

\* What detect_all_capabilities may find when the session has no snapshot.
Detectable == IF capabilities = NoCapabilities THEN Snapshots ELSE {capabilities}

NextSwitch ==
    \/ \E failed \in FailedTechnologies, rec \in Recommendations,
          detected \in Detectable, fault \in SwitchFaults :
          FailTechnologyAndSwitch(failed, rec, detected, fault) /\ SwitchIdle
    \/ \E failed \in FailedTechnologies, rec \in Recommendations,
          detected \in Detectable, fault \in SwitchFaults :
          TryTechnologySwitch(failed, rec, detected, fault) /\ SwitchIdle
    \/ GenerateExecutionPlan /\ SwitchIdle
    \/ StoreExecutionResults /\ SwitchIdle
    \/ ClearRegenerateFlag /\ SwitchIdle

SpecSwitch == Init /\ [][NextSwitch]_vars

\* The recommendation names tooling the snapshot does not have: a language
\* that is no available runtime or has no compatible package manager, or a
\* required tool that is not available.
NamesUnavailableTooling(rec, caps) ==
    \/ rec.language \notin caps.runtimes
    \/ \A pm \in caps.managers :
          \A k \in 1..Len(runtime_pm_map(rec.language)) :
              runtime_pm_map(rec.language)[k] # pm
    \/ \E tool \in rec.required_tools :
          tool \notin caps.runtimes \cup caps.managers
            /\ ~(tool = "docker" /\ caps.docker)

C30_SwitchResetsExecutionState ==
    swCall.status = "technology_switched" =>
        /\ swSession.execution_results = 0
        /\ swSession.execution_plan = "None"
        /\ swSession.should_regenerate_steps

\* ---------------------------------------------------------------------
\* Further properties of one session's turns (Spec).
\* ---------------------------------------------------------------------

\* C31: whenever the session's current state is ERROR, its error message is
\* set.
C31_ErrorStateHasErrorMessage ==
    ss.current_state = "ERROR" => ss.error_message # "None"

\* ---------------------------------------------------------------------
\* Specification of the action-result log.
\* ---------------------------------------------------------------------

LogIdle == UNCHANGED <<turnVars, storeVars, iterVars, projVars, matchVars, engVars, faultVars, expVars, histVars, chanVars, advVars, parseVars, switchVars>>

NextLog == \E end \in DispatchEnds : DispatchLogged(end) /\ LogIdle

SpecLog == Init /\ [][NextLog]_vars

\* C32: after an action dispatch has been fully processed, the session's
\* action-result history holds at most 10 entries.
C32_ResultLogHoldsAtMostTen ==
    Len(function_results) <= max_function_results

\* The statuses the specification lists for the result of an action dispatch.
ResultStatuses ==
    { "updated", "waiting_for_user", "permission_requested", "completed",
      "capabilities_detected", "requirements_updated", "validation_complete",
      "confirmed", "plan_generated", "execution_completed", "error", "failed",
      "needs_retry", "ai_recovery_needed", "blocked_by_state_machine" }

\* C33: the result of every action dispatch carries a status of the closed
\* set ResultStatuses.
C33_ResultStatusIsOfTheClosedSet ==
    [][ ev'.op = "dispatch" =>
          \A i \in 1..Len(ev'.dispatches) :
              ev'.dispatches[i].status \in ResultStatuses ]_vars

\* ---------------------------------------------------------------------
\* Turns in which a handler raises (gemini/function_registry.py, execute;
\* core/agent.py, _process_with_gemini).
\* ---------------------------------------------------------------------

next_after_failed_breaks(status) ==
    IF status \in {"waiting_for_user", "permission_requested", "error", "failed"}
    THEN "returned" ELSE "streaming"
\* Where the loop over the chunks is after the status branches of a
\* function_call chunk: left by break on waiting_for_user and
\* permission_requested (agent.py 612-632), at the next chunk otherwise
\* ("error" and "failed" send function_error and go on, 790-802).
next_after(status) ==
    IF status \in {"waiting_for_user", "permission_requested"}
    THEN "returned" ELSE "streaming"

\* A function_call chunk whose handler raises (wrong arguments, or an
\* exception the handler does not catch): the except clause of execute sends
\* function_execution_error and returns status failed (function_registry.py
\* 144-157); _process_with_gemini sends function_result and function_error
\* and appends its entry.
\*   f  the send that raises: "none", "exec_error" (the send of the except
\*      clause, so that the exception leaves execute) or "result" (a send
\*      after execute).
ChunkCallRaises(call, extracted, f) ==
    /\ pc = "streaming"
    /\ calls < MaxCalls
    /\ call.name \in Registered
    /\ LET s1 == handle_missing_requirements(call.name, ss, extracted).session
           status == "failed"
           d == << Dispatch(call.name, status, TRUE) >>
       IN  /\ ~validate_function_for_state(call.name, s1)
           /\ calls' = calls + 1
           /\ trail' = Trail(trail, s1)
           /\ IF f = "none"
              THEN /\ ss' = AgentRecord(s1, call.name, status)
                   /\ pc' = next_after(status)
                   /\ ev' = Event("handler_raised", NoAuto, d)
              ELSE /\ ss' = s1
                   /\ pc' = "gemini_except"
                   /\ ev' = Event("handler_raised_unsent", NoAuto, d)

NextRaise ==
    \/ Next
    \/ \E call \in Calls :
          \E extracted \in CallExtractions(call),
             f \in {"none", "exec_error", "result"} :
             ChunkCallRaises(call, extracted, f) /\ StoreIdle

SpecRaise == Init /\ [][NextRaise]_vars

NamedProject ==
    [SessionState EXCEPT
        !.current_state = "CHECK_SYSTEM_CAPABILITIES",
        !.requirements = [project_type |-> TRUE, language |-> FALSE,
                          project_name |-> TRUE, folder_path |-> TRUE],
        !.completion_percentage = 75,
        !.function_results = [nonempty |-> TRUE,
                              name |-> "update_project_requirements",
                              status |-> "updated"]]

InitConfirm ==
    /\ ss = NamedProject
    /\ pc = "idle"
    /\ calls = 0
    /\ ev = Event("none", NoAuto, << >>)
    /\ trail = NoTrail
    /\ StoreInit
    /\ ExtInit

SpecConfirm == InitConfirm /\ [][Next]_vars

\* C35: the session goes from SUMMARY_CONFIRMATION to PLANNING only by a
\* dispatch of confirm_project_creation that reports the user's
\* confirmation.
C35_PlanningOnlyAfterConfirmation ==
    [][ (ss.current_state = "SUMMARY_CONFIRMATION"
           /\ ss'.current_state = "PLANNING")
          => /\ ev'.op = "dispatch"
             /\ ev'.dispatches[1].name = "confirm_project_creation"
             /\ ev'.dispatches[1].status = "confirmed" ]_vars

\* C36: create_project_with_steps executes the steps it is given only for a
\* session in whose permissions a granted permission is recorded.
C36_StepsRunOnlyWithPermission ==
    [][ (/\ ev'.op = "dispatch"
         /\ ev'.dispatches[1].name = "create_project_with_steps"
         /\ ev'.dispatches[1].ran
         /\ ev'.dispatches[1].status = "execution_completed")
          => ss.permissions ]_vars

\* C37: the session's current state becomes COMPLETED only from VERIFYING.
C37_CompletedOnlyFromVerifying ==
    [][ (ss'.current_state = "COMPLETED" /\ ss.current_state # "COMPLETED")
          => ss.current_state = "VERIFYING" ]_vars

\* ---------------------------------------------------------------------
\* Further properties of create_project_with_steps (SpecProject).
\* ---------------------------------------------------------------------

\* The loop is about to execute the step steps[i].
RunsStep ==
    /\ cpsPc = "loop"
    /\ step_i < steps_len
    /\ attempts # MaxRegenerations
    /\ ~should_regenerate_steps

\* C38: a regeneration of the step list during the loop leaves the loop at
\* the first step of the new list, and every step that is executed is the
\* one at the loop's position counted from the start of the list, so that
\* the new list's steps run in list order, none before its predecessors.
C38_RegeneratedListRunsFromFirstStep ==
    [][ /\ (cpsPc = "loop" /\ regenerated' = regenerated + 1) => step_i' = 0
        /\ (RunsStep /\ projVars' # projVars) => step_i >= 0 ]_vars

\* C39: every iteration of the step loop advances to a later step, uses up
\* one of the regenerate cycles or leaves the loop.
C39_EveryIterationMakesProgress ==
    [][ (cpsPc = "loop" /\ projVars' # projVars)
          => \/ step_i' > step_i
             \/ attempts' > attempts
             \/ cpsPc' # "loop" ]_vars

====
